---- MODULE Spec2Model ----
(***************************************************************************)
(* beads-workflows: the live watcher of issues.jsonl (src/watcher.ts), the *)
(* daemon that dispatches its events to handlers (src/cli.ts,              *)
(* src/runtime.ts), the diff of two logs (src/diff.ts) and the execution   *)
(* ledger workflows.jsonl (src/workflows.ts).                              *)
(*                                                                         *)
(* JavaScript runs one callback at a time: every action below is one       *)
(* callback, or the part of an async function between two awaits.  A file  *)
(* is observed at the step in which the awaited call completes.  Time is   *)
(* counted in ticks of 50 ms.                                              *)
(***************************************************************************)
EXTENDS Integers, Sequences, FiniteSets, TLC

\* ------------------------------------------------------------- bounds
\* Lines the external writer appends to issues.jsonl in one run.
MaxLog == 2
\* Reconciliation passes that may be in flight at once.
MaxPasses == 2
\* record() calls in one run.
MaxRecords == 3
\* Lines of a log given to diff.
MaxDiffLen == 2
\* Lines of issues.jsonl when the issues API is created.
MaxRead == 3
\* Reads of issues.jsonl by the issues API in flight together.
MaxLoads == 2
\* Calls of a hook's registering function.
MaxRegistrations == 3
\* Lines appended to a log that held lines when the watcher was created.
MaxAppends == 3
\* Calls of start() while the overlapping of calls is observed.
MaxStarts == 2
\* Lines a file holds when the API over it is created.
MaxStored == 2

\* ---------------------------------------------------- program constants
\* setTimeout(poll, 50): one tick.
PollTicks == 1
\* options.debounceMs ?? 100: two ticks.
DebounceTicks == 2

\* null, where an object is expected, and undefined, for an optional string.
Null == [null |-> TRUE]
Undefined == "undefined"
\* No pending timer.
NoTimer == -1

Ids == {"bw-1", "bw-2"}
Statuses == {"open", "in_progress", "closed"}
Types == {"task", "bug", "feature", "epic"}

\* The type guards of types.ts.
isValidStatus(value) == value \in Statuses

isValidType(value) == value \in Types

isValidPriority(value) == value \in 0..4

\* ------------------------------------------------------ lines and issues
\* One line of issues.jsonl: the JSON of a revision of a record.  The
\* variant selects which of the compared fields differs from the base
\* revision: 1 title, 2 priority, 3 assignee, 4 description, 5 updated_at;
\* variant 6 has no updated_at.
JsonLine(id, status, v) ==
  [ kind         |-> "json",
    id           |-> id,
    title        |-> IF v = 1 THEN "Renamed" ELSE "Task",
    status       |-> status,
    issue_type   |-> "task",
    priority     |-> IF v = 2 THEN 1 ELSE 2,
    assignee     |-> IF v = 3 THEN "alice" ELSE Undefined,
    description  |-> IF v = 4 THEN "text" ELSE Undefined,
    updated_at   |-> IF v = 5 THEN "2025-01-02T10:00:00Z"
                     ELSE IF v = 6 THEN Undefined
                     ELSE "2025-01-01T10:00:00Z",
    dependencies |-> <<>> ]

\* A revision with dependencies: the depends_on_id of each.
DependentLine(id, status, dependsOn) ==
  [JsonLine(id, status, 0) EXCEPT !.dependencies = dependsOn]

\* new Date(raw.updated_at).getTime(): NaN for a string that is no date.
NaN == "NaN"
getTime(updated_at) == IF updated_at = Undefined THEN NaN ELSE updated_at

\* a !== b on numbers: NaN differs from every number, itself included.
NotSame(a, b) == a = NaN \/ b = NaN \/ a # b

\* A line JSON.parse rejects.
GarbageLine == [kind |-> "garbage"]

\* parseJsonlLine: null for a line that is empty or not JSON, the Issue
\* otherwise.  No field is validated.
parseJsonlLine(line) ==
  IF line.kind # "json" THEN Null
  ELSE [ id          |-> line.id,
         title       |-> line.title,
         status      |-> line.status,
         type        |-> line.issue_type,
         priority    |-> line.priority,
         assignee    |-> line.assignee,
         description |-> line.description,
         updated     |-> getTime(line.updated_at),
         dependsOn   |-> line.dependencies,
         blocks      |-> <<>> ]

\* A Map<string, Issue> is the sequence of its values in insertion order.
MapHas(m, id) == \E k \in 1..Len(m) : m[k].id = id

MapGet(m, id) ==
  IF MapHas(m, id) THEN m[CHOOSE k \in 1..Len(m) : m[k].id = id] ELSE Null

\* Map.set keeps the place of a key that is already present.
MapSet(m, issue) ==
  IF MapHas(m, issue.id)
  THEN [k \in 1..Len(m) |-> IF m[k].id = issue.id THEN issue ELSE m[k]]
  ELSE Append(m, issue)

\* parseToMap keeping the first revision of an id instead of the last.
RECURSIVE parseToMapFirstWins(_)
parseToMapFirstWins(content) ==
  IF content = <<>> THEN <<>>
  ELSE LET init  == parseToMapFirstWins(SubSeq(content, 1, Len(content) - 1))
           issue == parseJsonlLine(content[Len(content)])
       IN  IF issue = Null \/ MapHas(init, issue.id) THEN init ELSE Append(init, issue)

\* The loop over content.split('\n'): the last revision of an id wins.
RECURSIVE parseToMap(_)
parseToMap(content) ==
  IF content = <<>> THEN <<>>
  ELSE LET init  == parseToMap(SubSeq(content, 1, Len(content) - 1))
           issue == parseJsonlLine(content[Len(content)])
       IN  IF issue = Null THEN init ELSE MapSet(init, issue)

\* stats.size / Bun.file().size: every line of the model has the same length.
FileSize(content) == Len(content)

\* ------------------------------------------------------------- readiness
\* isBlocked in which a dependency that is absent blocks as well.
isBlockedByAbsent(issue, allIssues) ==
  \E k \in 1..Len(issue.dependsOn) :
    LET dep == MapGet(allIssues, issue.dependsOn[k])
    IN  dep = Null \/ dep.status # "closed"

\* isBlocked: a dependency that is present and not closed blocks the issue.
isBlocked(issue, allIssues) ==
  \E k \in 1..Len(issue.dependsOn) :
    LET dep == MapGet(allIssues, issue.dependsOn[k])
    IN  dep # Null /\ dep.status # "closed"

\* ------------------------------------------------------------- the reader
\* The second pass of readIssuesFromJsonl: blocksMap.get(id) || [], the ids
\* of the parsed lines that name id among their dependencies, line by line.
RECURSIVE blocksOf(_, _)
blocksOf(issues, id) ==
  IF issues = <<>> THEN <<>>
  ELSE LET issue == issues[Len(issues)]
           deps  == {k \in 1..Len(issue.dependsOn) : issue.dependsOn[k] = id}
           rest  == blocksOf(SubSeq(issues, 1, Len(issues) - 1), id)
       IN  rest \o [k \in 1..Cardinality(deps) |-> issue.id]

\* The first pass of readIssuesFromJsonl: every line that parses, in order.
RECURSIVE parseAll(_)
parseAll(content) ==
  IF content = <<>> THEN <<>>
  ELSE LET init  == parseAll(SubSeq(content, 1, Len(content) - 1))
           issue == parseJsonlLine(content[Len(content)])
       IN  IF issue = Null THEN init ELSE Append(init, issue)

readIssuesFromJsonl(content) ==
  LET issues == parseAll(content)
  IN  [k \in 1..Len(issues) |-> [issues[k] EXCEPT !.blocks = blocksOf(issues, issues[k].id)]]

\* new Map(cachedIssues.map(i => [i.id, i]))
RECURSIVE MapOf(_)
MapOf(issues) ==
  IF issues = <<>> THEN <<>>
  ELSE MapSet(MapOf(SubSeq(issues, 1, Len(issues) - 1)), issues[Len(issues)])

\* issues.ready() and issues.blocked() on the loaded issues (SelectSeq is
\* Array.prototype.filter).
ready(issues, byId) ==
  LET keep(issue) == issue.status # "closed" /\ ~isBlocked(issue, byId)
  IN  SelectSeq(issues, keep)

blocked(issues, byId) ==
  LET keep(issue) == issue.status # "closed" /\ isBlocked(issue, byId)
  IN  SelectSeq(issues, keep)

\* issues.get(id)
get(byId, id) == MapGet(byId, id)

\* ------------------------------------------------------------------ epics
\* getChildren: the issues that are no epics and depend on the epic.
getChildren(epicId, issues) ==
  LET isChild(issue) ==
        /\ issue.type # "epic"
        /\ \E k \in 1..Len(issue.dependsOn) : issue.dependsOn[k] = epicId
  IN  SelectSeq(issues, isChild)

RECURSIVE GCD(_, _)
GCD(a, b) == IF b = 0 THEN a ELSE GCD(b, a % b)

\* A number that is no integer in general: the fraction in lowest terms.
Fraction(n, d) == <<n \div GCD(n, d), d \div GCD(n, d)>>

\* (closed / total) * 100
Percentage(closed, total) == Fraction(closed * 100, total)

NoProgress == [total |-> 0, closed |-> 0, percentage |-> Fraction(0, 1)]

\* epics.progress(epicId) on the loaded issues.
progress(epicId, issues) ==
  LET children == getChildren(epicId, issues)
      isClosed(c) == c.status = "closed"
      total    == Len(children)
      closed   == Len(SelectSeq(children, isClosed))
  IN  IF Len(children) = 0 THEN NoProgress
      ELSE [total |-> total, closed |-> closed, percentage |-> Percentage(closed, total)]

\* ------------------------------------------------------------------ diff
\* issueChanged: the six compared fields.
issueChanged(before, after) ==
  \/ before.status # after.status
  \/ before.title # after.title
  \/ before.priority # after.priority
  \/ before.assignee # after.assignee
  \/ before.description # after.description
  \/ NotSame(before.updated, after.updated)

\* diff with a closing transition reported in updated as well as in closed.
RECURSIVE diffMapsClosedAlsoUpdated(_, _)
diffMapsClosedAlsoUpdated(beforeMap, afterMap) ==
  IF afterMap = <<>> THEN [created |-> <<>>, updated |-> <<>>, closed |-> <<>>]
  ELSE LET rest   == diffMapsClosedAlsoUpdated(beforeMap, SubSeq(afterMap, 1, Len(afterMap) - 1))
           after  == afterMap[Len(afterMap)]
           before == MapGet(beforeMap, after.id)
           entry  == [id |-> after.id, before |-> before, after |-> after]
       IN  IF before = Null
           THEN [rest EXCEPT !.created = Append(@, after)]
           ELSE IF issueChanged(before, after)
           THEN IF before.status # "closed" /\ after.status = "closed"
                THEN [rest EXCEPT !.closed = Append(@, after), !.updated = Append(@, entry)]
                ELSE [rest EXCEPT !.updated = Append(@, entry)]
           ELSE rest

\* The loop of diff over afterMap, on the two parsed maps.
RECURSIVE diffMaps(_, _)
diffMaps(beforeMap, afterMap) ==
  IF afterMap = <<>> THEN [created |-> <<>>, updated |-> <<>>, closed |-> <<>>]
  ELSE LET rest   == diffMaps(beforeMap, SubSeq(afterMap, 1, Len(afterMap) - 1))
           after  == afterMap[Len(afterMap)]
           before == MapGet(beforeMap, after.id)
       IN  IF before = Null
           THEN [rest EXCEPT !.created = Append(@, after)]
           ELSE IF issueChanged(before, after)
           THEN IF before.status # "closed" /\ after.status = "closed"
                THEN [rest EXCEPT !.closed = Append(@, after)]
                ELSE [rest EXCEPT !.updated =
                        Append(@, [id |-> after.id, before |-> before, after |-> after])]
           ELSE rest

\* diff({before, after}) on the contents of two logs.
diff(before, after) == diffMaps(parseToMap(before), parseToMap(after))

\* --------------------------------------------------------------- watcher
EventTypes == {"created", "updated", "closed", "reopened"}

\* The body of the loop of processChanges over currentIssues: the event for
\* one record, or null when the watcher emits none.
WatcherEventFor(previous, issue) ==
  IF previous = Null
  THEN [type |-> "created", issue |-> issue, previousIssue |-> Null]
  ELSE IF previous.status # issue.status
  THEN [type |-> IF issue.status = "closed" THEN "closed"
                 ELSE IF previous.status = "closed" THEN "reopened"
                 ELSE "updated",
        issue |-> issue, previousIssue |-> previous]
  ELSE Null

\* The events of one pass, in the order of currentIssues.
RECURSIVE DetectChanges(_, _)
DetectChanges(known, current) ==
  IF current = <<>> THEN <<>>
  ELSE LET rest  == DetectChanges(known, SubSeq(current, 1, Len(current) - 1))
           issue == current[Len(current)]
           event == WatcherEventFor(MapGet(known, issue.id), issue)
       IN  IF event = Null THEN rest ELSE Append(rest, event)

\* ---------------------------------------------------------------- ledger
WorkflowStatuses == {"success", "failed"}

\* JSON.stringify(record) + '\n' and JSON.parse(line).
Stringify(record) == [kind |-> "json", obj |-> record]
CanParse(line) == line.kind = "json"
Parse(line) == line.obj

\* An empty line of the file.
BlankLine == [kind |-> "blank"]

\* content.trim().split('\n').filter(Boolean): the lines that are not empty.
NonBlank(file) == SelectSeq(file.lines, LAMBDA line : line # BlankLine)

\* A readRecords that skips the lines that do not parse, as the reader of
\* the log does.
readRecordsSkipping(file) ==
  LET lines == SelectSeq(NonBlank(file), CanParse)
  IN  IF file.exists THEN [k \in 1..Len(lines) |-> Parse(lines[k])] ELSE <<>>

\* readRecords: [] when the file is missing or a line does not parse.
readRecords(file) ==
  IF file.exists /\ \A k \in 1..Len(NonBlank(file)) : CanParse(NonBlank(file)[k])
  THEN [k \in 1..Len(NonBlank(file)) |-> Parse(NonBlank(file)[k])]
  ELSE <<>>

\* writeFile in place of appendFile: the line replaces the file.
recordOverwrites(file, input, now) ==
  [exists |-> TRUE,
   lines  |-> <<Stringify([input EXCEPT !.triggered_at = now])>>]

\* record: the input with triggered_at set is appended as one line;
\* appendFile creates the file when it is missing.
record(file, input, now) ==
  [exists |-> TRUE,
   lines  |-> Append(file.lines, Stringify([input EXCEPT !.triggered_at = now]))]

\* The predicate of wasExecuted's records.some(...).
IsSuccessOf(r, issue, event) ==
  r.type = "issue" /\ r.issue = issue /\ r.event = event /\ r.status = "success"

\* wasExecuted without the test of the record's type.
wasExecutedAnyType(file, issue, event) ==
  LET records == readRecords(file)
  IN  \E k \in 1..Len(records) :
        /\ records[k].issue = issue /\ records[k].event = event
        /\ records[k].status = "success"

wasExecuted(file, issue, event) ==
  LET records == readRecords(file)
  IN  \E k \in 1..Len(records) : IsSuccessOf(records[k], issue, event)

\* if (filter?.issue): a filter field that is undefined or the empty string
\* is falsy and selects nothing out.
Truthy(value) == value \notin {Undefined, ""}

NoFilter == [issue |-> Undefined, status |-> Undefined, type |-> Undefined]

list(file, filter) ==
  LET byIssue  == IF Truthy(filter.issue)
                  THEN SelectSeq(readRecords(file),
                                 LAMBDA r : r.type = "issue" /\ r.issue = filter.issue)
                  ELSE readRecords(file)
      byStatus == IF Truthy(filter.status)
                  THEN SelectSeq(byIssue, LAMBDA r : r.status = filter.status)
                  ELSE byIssue
  IN  IF Truthy(filter.type)
      THEN SelectSeq(byStatus, LAMBDA r : r.type = filter.type)
      ELSE byStatus

listFailed(file) == SelectSeq(readRecords(file), LAMBDA r : r.status = "failed")

\* The predicate of retry's records.find(...).
IsFailedOf(r, issue, event) ==
  r.type = "issue" /\ r.issue = issue /\ r.event = event /\ r.status = "failed"

\* A retry that answers null once the pair has succeeded.
retryUnlessExecuted(file, issue, event) ==
  LET records == readRecords(file)
      matches == {k \in 1..Len(records) : IsFailedOf(records[k], issue, event)}
  IN  IF matches = {} \/ wasExecuted(file, issue, event) THEN Null
      ELSE LET failedRecord == records[CHOOSE k \in matches : \A j \in matches : k <= j]
           IN  [issue |-> failedRecord.issue, event |-> failedRecord.event,
                handler |-> failedRecord.handler, error |-> failedRecord.error]

\* retry: records.find returns the first record that matches.
retry(file, issue, event) ==
  LET records == readRecords(file)
      matches == {k \in 1..Len(records) : IsFailedOf(records[k], issue, event)}
  IN  IF matches = {} THEN Null
      ELSE LET failedRecord == records[CHOOSE k \in matches : \A j \in matches : k <= j]
           IN  [issue |-> failedRecord.issue, event |-> failedRecord.event,
                handler |-> failedRecord.handler, error |-> failedRecord.error]

\* --------------------------------------------------------------- runtime
\* What a handler does when it is invoked: it returns (or its promise
\* fulfils), it throws new Error("boom") before its first await, its promise
\* rejects with the string "oops", or it throws Object.create(null), a value
\* that has no toString.
HandlerBehaviours == {"returns", "throws", "rejects", "throwsBare"}

ThrownValue(behaviour) ==
  IF behaviour = "throws" THEN [isError |-> TRUE, message |-> "boom"]
  ELSE IF behaviour = "rejects" THEN [isError |-> FALSE, isString |-> TRUE, value |-> "oops"]
  ELSE [isError |-> FALSE, isString |-> FALSE]

\* String(error): the string itself, and a TypeError for a value that cannot
\* be converted to a primitive.
String(error) ==
  IF error.isString THEN [threw |-> FALSE, value |-> error.value]
  ELSE [threw |-> TRUE, value |-> "TypeError"]

\* execute: the promise it returns, settled.  The catch turns a throw and a
\* rejection into a result, error instanceof Error ? error.message :
\* String(error); what the catch block itself throws rejects the promise.
execute(behaviour) ==
  IF behaviour = "returns"
  THEN [state |-> "fulfilled", success |-> TRUE, error |-> Undefined]
  ELSE LET error == ThrownValue(behaviour)
       IN  IF error.isError
           THEN [state |-> "fulfilled", success |-> FALSE, error |-> error.message]
           ELSE IF String(error).threw
           THEN [state |-> "rejected", success |-> FALSE, error |-> String(error).value]
           ELSE [state |-> "fulfilled", success |-> FALSE, error |-> String(error).value]

\* `issue.${event.type}`
EventName(type) == <<"issue", type>>
EventNames == {EventName(t) : t \in EventTypes}

\* The handler files the scanner may find in the directory.
HandlerSets == {EventNames, {EventName("created"), EventName("closed")}}

\* ----------------------------------------------------------------- hooks
\* Two of the event names createHooks registers under, two handler
\* functions, and what emit is given.
HookEvents == {"issue.created", "issue.closed"}
HookHandlers == {"h1", "h2"}
HookArgs == {"bw-1", "bw-2"}

\* Set.prototype.add and delete on a Set kept in insertion order.
SetAdd(set, x) ==
  IF \E k \in 1..Len(set) : set[k] = x THEN set ELSE Append(set, x)
SetDelete(set, x) == SelectSeq(set, LAMBDA y : y # x)

\* register: the handler is added to the Set of the event.
register(registry, event, handler) ==
  [registry EXCEPT ![event] = SetAdd(@, handler)]

\* The function register returns: the handler is deleted from the Set.
unsubscribe(registry, event, handler) ==
  [registry EXCEPT ![event] = SetDelete(@, handler)]

\* emit: the calls it makes, in the order of the Set.
emit(registry, event, args) ==
  [k \in 1..Len(registry[event]) |->
     [event |-> event, handler |-> registry[event][k], args |-> args]]

\* ----------------------------------------------------------------- state
VARIABLES
  log,            \* issues.jsonl: its lines
  ledger,         \* workflows.jsonl: [exists, lines]
  running,        \* watcher: running
  fsWatcher,      \* watcher: the fs.watch subscription is armed
  pollInterval,   \* watcher: ticks until the poll timer fires, or NoTimer
  lastSize,       \* watcher: size of the log at the baseline
  knownIssues,    \* watcher: the baseline snapshot
  debounceTimer,  \* watcher: ticks until the debounce timer fires, or NoTimer
  lastPolledSize, \* watcher: size seen by the last poll
  startPc,        \* watcher.start(): "idle", or the await it is suspended at
  nativeEvents,   \* fs.watch 'change' notifications not yet delivered
  passes,         \* processChanges() calls in flight: [pc, currentSize]
  loadedHandlers, \* daemon: the event names that have a handler
  dispatches,     \* handleIssueEvent() calls in flight: [issue, type, behaviour]
  crashed,        \* the process was ended by an unhandled rejection
  \* What an observer of the run has seen (no code reads these).
  emitted,        \* the 'issue' events of the last pass that was not skipped
  invocations,    \* the handler invocations of the last pass
  executed,       \* the last result onHandlerExecuted was given, or Null
  stoppedBefore,  \* a stop() of the running watcher has completed
  lastCompleted,  \* the call of the watcher that returned last: "start", "stop", "none"
  recorded,       \* the inputs record() was called with, each with its time, in order
  listedBefore,   \* what list() returned before the last record()
  diffInput,      \* the argument of a call of diff: [before, after]
  diffResult,     \* what the call returned, or Null before it has
  cachedIssues,   \* issues API: cachedIssues, or Null
  issuesById,     \* issues API: issuesById, or Null
  loading,        \* issues API: calls of readIssuesFromJsonl awaiting readFile
  logExists,      \* issues.jsonl exists
  lastLoad,       \* issues API: how the last loadIssues that read the file settled
  epicIssues,     \* epics API: cachedIssues, or Null
  epicLoading,    \* epics API: calls of readIssuesFromJsonl awaiting readFile
  lastPassChange, \* the pass that ended last called the 'change' listeners
  shrunkTo,       \* {n} when a pass found the log shrunk to size n and no
                  \* truncation has followed; {} otherwise
  startedAt,      \* {n} when the last start() returned with a log of n lines
  queries,        \* handlers awaiting issues.get(id): the ids asked for
  answers,        \* what issues.get answered to handlers: [id, found]
  handlers,       \* hooks registry: per event, its Set of handlers in insertion order
  unsubscribes,   \* the functions register() returned: [event, handler, called]
  invoked,        \* the calls the last emit() made: [event, handler, args]
  truncated,      \* the last truncation of the log under the running watcher, {}
                  \* when there is none: {[snapshot, compared]}, the baseline at
                  \* the truncation and whether a reading pass has ended since
  starts,         \* start() calls suspended in loadInitialState: [id, pc]
  started,        \* start() calls made
  subscriptions,  \* the fs.watch subscriptions that are open, by the call that opened them
  watchHandle,    \* the subscription the variable fsWatcher refers to, {} when null
  pollTimers,     \* the poll timeouts that are pending, by the call that began the loop
  pollHandle,     \* the timeout the variable pollInterval refers to, {} when null
  stopMidStart,   \* stop() was called while a start() was in flight, and no
                  \* start() has been called since
  asks,           \* issues API: calls of ready, blocked and reload in flight:
                  \* [op, pc, issues], issues what loadIssues returned to the call
  evaluated,      \* what the last ready or blocked that resumed filtered, {} when
                  \* none has: {[op, issues, byId]}
  answer,         \* the last query of the ledger and what it returned, {} when
                  \* none was made: {[query, args, result]}
  stretch,        \* the current burst of triggers: [ticks, held], the ticks since
                  \* its first trigger, up to DebounceTicks, and whether its
                  \* last trigger came DebounceTicks or more after the first
  errors,         \* exceptions the 'error' listeners of the watcher were given
  aborted,        \* the last pass a listener aborted, {} when there is none:
                  \* {[delivered, log, next]}, next the log of the reading pass
                  \* that ended after it, if one has
  tags,           \* per pass in flight: [focus, burst]
  quiet,          \* ticks since the last trigger, up to DebounceTicks
  earlyStart,     \* a pass has started less than DebounceTicks after a trigger
  burstTriggers,  \* triggers of the current burst (each within DebounceTicks of the one before)
  burstFires,     \* passes started since the current burst began
  burstChanges,   \* 'change' notifications of the passes of the current burst
  armedInFocus,   \* the last trigger arrived while the focus pass was in flight
  further,        \* passes started from triggers that arrived during the focus pass
  worst,          \* the largest value further has had
  overlap         \* a pass has started from such a trigger before the focus pass ended

watcherVars == <<running, fsWatcher, pollInterval, lastSize, knownIssues,
                 debounceTimer, lastPolledSize, startPc, nativeEvents, passes>>
daemonVars == <<loadedHandlers, dispatches, crashed, invocations, executed>>
passSeen == <<tags, quiet, earlyStart, burstTriggers, burstFires, burstChanges,
              armedInFocus, further, worst, overlap>>
ledgerSeen == <<recorded, listedBefore>>
eventSeen == <<emitted, stoppedBefore, lastCompleted>>
apiVars == <<diffInput, diffResult, cachedIssues, issuesById, loading, logExists, lastLoad,
             epicIssues, epicLoading>>
seenVars == <<lastPassChange, shrunkTo, startedAt, queries, answers>>
hookVars == <<handlers, unsubscribes, invoked>>
\* The components that only their own specification exercises.
abortSeen == <<errors, aborted>>
rewriteSeen == <<truncated>>
overlapVars == <<starts, started, subscriptions, watchHandle, pollTimers, pollHandle,
                 stopMidStart>>
askVars == <<asks, evaluated>>
auditSeen == <<answer>>
trailSeen == <<stretch>>
apartVars == <<hookVars, abortSeen, rewriteSeen, overlapVars, askVars, auditSeen, trailSeen>>
vars == <<log, ledger, watcherVars, daemonVars, eventSeen, ledgerSeen, apartVars, apiVars, seenVars,
          passSeen>>

\* Lines the external writer appends while the timing of the watcher is
\* observed: two records are created.
TimingLines == {JsonLine("bw-1", "open", 0), JsonLine("bw-2", "open", 0)}

\* Lines the external writer appends while the daemon is observed: two
\* records are created, one is closed and reopened.
DaemonLines ==
  {JsonLine("bw-1", "open", 0), JsonLine("bw-1", "closed", 0), JsonLine("bw-2", "open", 0)}

\* A ledger another run (CI, the SDK) has left in the directory.
RecordedSuccess ==
  Stringify([type |-> "issue", issue |-> "bw-1", event |-> "created",
             status |-> "success", handler |-> "on.issue.created.ts",
             trigger |-> "push", error |-> Undefined, triggered_at |-> 1])

NoLedger == [exists |-> FALSE, lines |-> <<>>]
InitialLedgers == {NoLedger, [exists |-> TRUE, lines |-> <<RecordedSuccess>>]}

\* A watcher, a daemon and a ledger nobody has called yet.
Idle(ledgers) ==
  /\ ledger \in ledgers
  /\ running = FALSE
  /\ fsWatcher = FALSE
  /\ pollInterval = NoTimer
  /\ lastSize = 0
  /\ knownIssues = <<>>
  /\ debounceTimer = NoTimer
  /\ lastPolledSize = 0
  /\ startPc = "idle"
  /\ nativeEvents = 0
  /\ passes = <<>>
  /\ loadedHandlers = {}
  /\ dispatches = <<>>
  /\ crashed = FALSE
  /\ emitted = <<>>
  /\ invocations = {}
  /\ executed = Null
  /\ stoppedBefore = FALSE
  /\ lastCompleted = "none"
  /\ lastPassChange = FALSE
  /\ shrunkTo = {}
  /\ startedAt = {}
  /\ queries = <<>>
  /\ answers = {}
  /\ recorded = <<>>
  /\ listedBefore = <<>>
  /\ handlers = [event \in HookEvents |-> <<>>]
  /\ unsubscribes = <<>>
  /\ invoked = <<>>
  /\ errors = 0
  /\ aborted = {}
  /\ truncated = {}
  /\ starts = <<>>
  /\ started = 0
  /\ subscriptions = {}
  /\ watchHandle = {}
  /\ pollTimers = {}
  /\ pollHandle = {}
  /\ stopMidStart = FALSE
  /\ asks = <<>>
  /\ evaluated = {}
  /\ answer = {}
  /\ stretch = [ticks |-> 0, held |-> FALSE]
  /\ tags = <<>>
  /\ quiet = DebounceTicks
  /\ earlyStart = FALSE
  /\ burstTriggers = 0
  /\ burstFires = 0
  /\ burstChanges = 0
  /\ armedInFocus = FALSE
  /\ further = 0
  /\ worst = 0
  /\ overlap = FALSE

\* No call of diff and no call of the issues API has been made.
NoCalls ==
  /\ diffInput = [before |-> <<>>, after |-> <<>>]
  /\ diffResult = Null
  /\ cachedIssues = Null
  /\ issuesById = Null
  /\ loading = 0
  /\ logExists = TRUE
  /\ lastLoad = Null
  /\ epicIssues = Null
  /\ epicLoading = 0

InitWith(ledgers) ==
  /\ log = <<>>
  /\ NoCalls
  /\ Idle(ledgers)

RemoveAt(seq, i) == SubSeq(seq, 1, i - 1) \o SubSeq(seq, i + 1, Len(seq))

Max(a, b) == IF a >= b THEN a ELSE b

\* ------------------------------------------------------------- observer
FocusInFlight == \E k \in 1..Len(tags) : tags[k].focus

\* A step in which processChanges() was called.
PassStarts == Len(passes') > Len(passes)

\* The observer's account of a pass that starts in this step; fromFocus says
\* whether the trigger behind it arrived while the focus pass was in flight.
\* A pass that starts while none is in flight becomes the focus pass.
SeePassStart(fromFocus, burstTags, fires, sinceTrigger) ==
  LET caused == IF fromFocus THEN further + 1 ELSE further
  IN  /\ tags' = Append(burstTags, [focus |-> passes = <<>>, burst |-> TRUE])
      /\ burstFires' = fires + 1
      /\ earlyStart' = (earlyStart \/ sinceTrigger < DebounceTicks)
      /\ worst' = Max(worst, caused)
      /\ overlap' = (overlap \/ (fromFocus /\ FocusInFlight))
      /\ further' = IF passes = <<>> THEN 0 ELSE caused

\* The observer's account of a tick.
SeeTick ==
  /\ quiet' = IF quiet < DebounceTicks THEN quiet + 1 ELSE quiet
  /\ UNCHANGED <<tags, earlyStart, burstTriggers, burstFires, burstChanges,
                 armedInFocus, further, worst, overlap>>

\* The observer's account of a call of debouncedProcess.
SeeTrigger ==
  LET newBurst  == burstTriggers = 0 \/ quiet >= DebounceTicks
      burstTags == IF newBurst
                   THEN [k \in 1..Len(tags) |-> [tags[k] EXCEPT !.burst = FALSE]]
                   ELSE tags
      fires     == IF newBurst THEN 0 ELSE burstFires
  IN  /\ quiet' = 0
      /\ burstTriggers' = IF newBurst THEN 1 ELSE burstTriggers + 1
      /\ burstChanges' = IF newBurst THEN 0 ELSE burstChanges
      /\ IF PassStarts
         THEN /\ SeePassStart(FocusInFlight, burstTags, fires, 0)
              /\ armedInFocus' = FALSE
         ELSE /\ tags' = burstTags
              /\ burstFires' = fires
              /\ armedInFocus' = FocusInFlight
              /\ UNCHANGED <<earlyStart, further, worst, overlap>>

\* The observer's account of the debounce timer firing.
SeeFire ==
  /\ SeePassStart(armedInFocus, tags, burstFires, quiet)
  /\ armedInFocus' = FALSE
  /\ UNCHANGED <<quiet, burstTriggers, burstChanges>>

\* The observer's account of the end of pass i, with or without 'change'.
SeePassEnd(i, change) ==
  /\ tags' = RemoveAt(tags, i)
  /\ burstChanges' = IF change /\ tags[i].burst THEN burstChanges + 1 ELSE burstChanges
  /\ UNCHANGED <<quiet, earlyStart, burstTriggers, burstFires, armedInFocus,
                 further, worst, overlap>>

\* -------------------------------------------------------------- actions
\* The actions below say what the code does to the files and to the state
\* of the watcher; a specification adds who listens to the watcher and what
\* its observer records.

\* Another process appends a revision to issues.jsonl.
AppendLine(line) ==
  /\ Len(log) < MaxLog
  /\ log' = Append(log, line)
  /\ nativeEvents' = IF fsWatcher THEN nativeEvents + 1 ELSE nativeEvents
  /\ UNCHANGED <<ledger, running, fsWatcher, pollInterval, lastSize, knownIssues,
                 debounceTimer, lastPolledSize, startPc, passes>>

\* 50 ms pass: every pending timer comes one tick closer to firing.
Tick ==
  /\ pollInterval' = IF pollInterval > 0 THEN pollInterval - 1 ELSE pollInterval
  /\ debounceTimer' = IF debounceTimer > 0 THEN debounceTimer - 1 ELSE debounceTimer
  /\ UNCHANGED <<log, ledger, running, fsWatcher, lastSize, knownIssues,
                 lastPolledSize, startPc, nativeEvents, passes>>

\* A throttle in place of the debounce: a pending timer is left to run out.
debouncedProcessNoReset ==
  /\ debounceTimer' = IF debounceTimer >= 0 THEN debounceTimer ELSE DebounceTicks
  /\ passes' = passes

\* A leading-edge debounce: a trigger that finds no timer pending starts a
\* pass at once.
debouncedProcessLeading ==
  /\ debounceTimer' = DebounceTicks
  /\ passes' = IF debounceTimer = NoTimer /\ Len(passes) < MaxPasses
               THEN Append(passes, [pc |-> "stat", currentSize |-> 0])
               ELSE passes

\* debouncedProcess: cancel the pending timer and arm a new one.
debouncedProcess ==
  /\ debounceTimer' = DebounceTicks
  /\ passes' = passes

\* start() up to its first await: loadInitialState begins to read the log.
\* One start() is in flight at a time.
StartCall ==
  /\ ~crashed /\ ~running /\ startPc = "idle"
  /\ startPc' = "readFile"
  /\ UNCHANGED <<log, ledger, running, fsWatcher, pollInterval, lastSize,
                 knownIssues, debounceTimer, lastPolledSize, nativeEvents, passes>>

\* loadInitialState after readFile: the baseline snapshot.
StartRead ==
  /\ ~crashed /\ startPc = "readFile"
  /\ knownIssues' = parseToMap(log)
  /\ startPc' = "stat"
  /\ UNCHANGED <<log, ledger, running, fsWatcher, pollInterval, lastSize,
                 debounceTimer, lastPolledSize, nativeEvents, passes>>

\* A start() that returns from the catch of fs.watch: neither running nor
\* the poll timer is set when the subscription could not be armed.
StartArmGivesUp(watchOutcomes) ==
  /\ ~crashed /\ startPc = "stat"
  /\ lastSize' = FileSize(log)
  /\ fsWatcher' \in watchOutcomes
  /\ running' = fsWatcher'
  /\ lastPolledSize' = lastSize'
  /\ pollInterval' = IF fsWatcher' THEN PollTicks ELSE NoTimer
  /\ startPc' = "idle"
  /\ UNCHANGED <<log, ledger, knownIssues, debounceTimer, nativeEvents, passes>>

\* loadInitialState after stat, and the rest of start(): fs.watch is armed
\* (or throws and is skipped), then the poll timer.
StartArm(watchOutcomes) ==
  /\ ~crashed /\ startPc = "stat"
  /\ lastSize' = FileSize(log)
  /\ fsWatcher' \in watchOutcomes
  /\ running' = TRUE
  /\ lastPolledSize' = lastSize'
  /\ pollInterval' = PollTicks
  /\ startPc' = "idle"
  /\ UNCHANGED <<log, ledger, knownIssues, debounceTimer, nativeEvents, passes>>

\* stop() that leaves the poll timer armed.
StopLeavesPoll ==
  /\ ~crashed /\ running
  /\ debounceTimer' = NoTimer
  /\ fsWatcher' = FALSE
  /\ nativeEvents' = 0
  /\ running' = FALSE
  /\ UNCHANGED <<log, ledger, pollInterval, lastSize, knownIssues, lastPolledSize,
                 startPc, passes>>

\* start() of a running watcher: if (running) return.
StartReturns ==
  /\ ~crashed /\ running
  /\ UNCHANGED <<log, ledger, watcherVars>>

\* stop() of a stopped watcher: if (!running) return.
StopReturns ==
  /\ ~crashed /\ ~running
  /\ UNCHANGED <<log, ledger, watcherVars>>

\* stop() of a running watcher; stop() of a stopped one returns at once.
Stop ==
  /\ ~crashed /\ running
  /\ debounceTimer' = NoTimer
  /\ pollInterval' = NoTimer
  /\ fsWatcher' = FALSE
  /\ nativeEvents' = 0
  /\ running' = FALSE
  /\ UNCHANGED <<log, ledger, lastSize, knownIssues, lastPolledSize, startPc, passes>>

\* The fs.watch callback with eventType 'change'.
NativeNotify ==
  /\ ~crashed /\ fsWatcher /\ nativeEvents > 0
  /\ nativeEvents' = nativeEvents - 1
  /\ debouncedProcess
  /\ UNCHANGED <<log, ledger, running, fsWatcher, pollInterval, lastSize,
                 knownIssues, lastPolledSize, startPc>>

\* poll sees the size it saw last: the timer is armed again.
PollSame ==
  /\ ~crashed /\ pollInterval = 0
  /\ ~running \/ FileSize(log) = lastPolledSize
  /\ pollInterval' = IF running THEN PollTicks ELSE NoTimer
  /\ UNCHANGED <<log, ledger, running, fsWatcher, lastSize, knownIssues,
                 debounceTimer, lastPolledSize, startPc, nativeEvents, passes>>

\* poll sees another size: a trigger.
PollChanged ==
  /\ ~crashed /\ pollInterval = 0
  /\ running /\ FileSize(log) # lastPolledSize
  /\ lastPolledSize' = FileSize(log)
  /\ debouncedProcess
  /\ pollInterval' = PollTicks
  /\ UNCHANGED <<log, ledger, running, fsWatcher, lastSize, knownIssues,
                 startPc, nativeEvents>>

\* A debounce timer that waits for the handlers under way before it starts
\* a pass.
DebounceFireAwaitsHandlers ==
  /\ ~crashed /\ debounceTimer = 0
  /\ dispatches = <<>>
  /\ Len(passes) < MaxPasses
  /\ debounceTimer' = NoTimer
  /\ passes' = Append(passes, [pc |-> "stat", currentSize |-> 0])
  /\ UNCHANGED <<log, ledger, running, fsWatcher, pollInterval, lastSize,
                 knownIssues, lastPolledSize, startPc, nativeEvents>>

\* The debounce timer fires: processChanges() is called, not awaited, and
\* runs up to its await of stat.
DebounceFire ==
  /\ ~crashed /\ debounceTimer = 0
  /\ Len(passes) < MaxPasses
  /\ debounceTimer' = NoTimer
  /\ passes' = Append(passes, [pc |-> "stat", currentSize |-> 0])
  /\ UNCHANGED <<log, ledger, running, fsWatcher, pollInterval, lastSize,
                 knownIssues, lastPolledSize, startPc, nativeEvents>>

\* A pass that reloads the baseline when the log has not grown.
StatSkipReloads(i) ==
  /\ ~crashed /\ passes[i].pc = "stat"
  /\ FileSize(log) <= lastSize
  /\ lastSize' = FileSize(log)
  /\ knownIssues' = parseToMap(log)
  /\ passes' = RemoveAt(passes, i)
  /\ UNCHANGED <<log, ledger, running, fsWatcher, pollInterval,
                 debounceTimer, lastPolledSize, startPc, nativeEvents>>

\* processChanges after stat, the log has not grown: the pass ends.
StatSkip(i) ==
  /\ ~crashed /\ passes[i].pc = "stat"
  /\ FileSize(log) <= lastSize
  /\ lastSize' = FileSize(log)
  /\ passes' = RemoveAt(passes, i)
  /\ UNCHANGED <<log, ledger, running, fsWatcher, pollInterval, knownIssues,
                 debounceTimer, lastPolledSize, startPc, nativeEvents>>

\* processChanges after stat, the log has grown: readFile.
StatGrown(i) ==
  /\ ~crashed /\ passes[i].pc = "stat"
  /\ FileSize(log) > lastSize
  /\ passes' = [passes EXCEPT ![i] = [pc |-> "read", currentSize |-> FileSize(log)]]
  /\ UNCHANGED <<log, ledger, running, fsWatcher, pollInterval, lastSize,
                 knownIssues, debounceTimer, lastPolledSize, startPc, nativeEvents>>

\* The events processChanges hands to the 'issue' listeners when readFile
\* completes now.
PassEvents == DetectChanges(knownIssues, parseToMap(log))

\* processChanges after readFile: the events go to the listeners, the
\* baseline is replaced, 'change' is emitted.
ReadDone(i) ==
  /\ ~crashed /\ passes[i].pc = "read"
  /\ knownIssues' = parseToMap(log)
  /\ lastSize' = passes[i].currentSize
  /\ passes' = RemoveAt(passes, i)
  /\ UNCHANGED <<log, ledger, running, fsWatcher, pollInterval, debounceTimer,
                 lastPolledSize, startPc, nativeEvents>>

\* processChanges after readFile, with an 'issue' listener that throws when
\* it is called for the k-th event: the loop over the events is left for the
\* catch, which calls the 'error' listeners; the baseline stays.
ReadThrowsAdvancing(i, k) ==
  /\ ~crashed /\ passes[i].pc = "read"
  /\ k \in 1..Len(PassEvents)
  /\ knownIssues' = parseToMap(log)
  /\ lastSize' = passes[i].currentSize
  /\ passes' = RemoveAt(passes, i)
  /\ UNCHANGED <<log, ledger, running, fsWatcher, pollInterval, debounceTimer,
                 lastPolledSize, startPc, nativeEvents>>

ReadThrows(i, k) ==
  /\ ~crashed /\ passes[i].pc = "read"
  /\ k \in 1..Len(PassEvents)
  /\ passes' = RemoveAt(passes, i)
  /\ UNCHANGED <<log, ledger, running, fsWatcher, pollInterval, lastSize, knownIssues,
                 debounceTimer, lastPolledSize, startPc, nativeEvents>>

\* An 'issue' listener that keeps the events it is given.
Recorded ==
  emitted' = [k \in 1..Len(PassEvents) |->
                [type |-> PassEvents[k].type, id |-> PassEvents[k].issue.id]]

\* ---------------------------------------------------------------- daemon
\* loadHandlers: the handlers the scanner finds.
loadHandlers == loadedHandlers' \in HandlerSets

\* handleIssueEvent: of the events of a pass, those for which it invokes a
\* handler through runtime.execute.
handleIssueEvent(events) ==
  SelectSeq(events, LAMBDA e : EventName(e.type) \in loadedHandlers)

\* The 'issue' listener of the daemon, called for the events of a pass:
\* every handler invoked runs up to its first await.
Dispatched ==
  LET handled == handleIssueEvent(PassEvents)
  IN  /\ \E behaviours \in [1..Len(handled) -> HandlerBehaviours] :
            dispatches' = dispatches \o
              [k \in 1..Len(handled) |->
                 [issue |-> handled[k].issue.id, type |-> handled[k].type,
                  behaviour |-> behaviours[k]]]
      /\ invocations' =
           { [issue |-> handled[k].issue.id, type |-> handled[k].type,
              executedBefore |->
                wasExecuted(ledger, handled[k].issue.id, handled[k].type)]
             : k \in 1..Len(handled) }
      /\ UNCHANGED <<loadedHandlers, crashed, executed>>

\* handleIssueEvent after its await of runtime.execute: the result goes to
\* onHandlerExecuted.  A rejection of execute would reject handleIssueEvent,
\* whose promise the watcher drops: an unhandled rejection ends the process.
DispatchReturn(i) ==
  /\ ~crashed
  /\ LET d      == dispatches[i]
         result == execute(d.behaviour)
     IN  IF result.state = "rejected"
         THEN /\ crashed' = TRUE
              /\ UNCHANGED executed
         ELSE /\ executed' = [issue |-> d.issue, type |-> d.type,
                               behaviour |-> d.behaviour,
                               success |-> result.success, error |-> result.error]
              /\ UNCHANGED crashed
  /\ dispatches' = RemoveAt(dispatches, i)
  /\ UNCHANGED <<log, ledger, watcherVars, loadedHandlers, invocations>>

\* ------------------------------------------------- the watcher, its timing
\* The watcher on its own (createWatcher) with no listener, observed for
\* when its passes start and end.
NoDaemon == UNCHANGED <<daemonVars, eventSeen, ledgerSeen, apartVars, apiVars, seenVars>>
NoTiming == UNCHANGED passSeen

Init == InitWith({NoLedger})

Next ==
  \/ \E line \in TimingLines : AppendLine(line) /\ NoDaemon /\ NoTiming
  \/ Tick /\ SeeTick /\ NoDaemon
  \/ StartCall /\ NoDaemon /\ NoTiming
  \/ StartRead /\ NoDaemon /\ NoTiming
  \/ StartArm(BOOLEAN) /\ NoDaemon /\ NoTiming
  \/ Stop /\ NoDaemon /\ NoTiming
  \/ NativeNotify /\ SeeTrigger /\ NoDaemon
  \/ PollSame /\ NoDaemon /\ NoTiming
  \/ PollChanged /\ SeeTrigger /\ NoDaemon
  \/ DebounceFire /\ SeeFire /\ NoDaemon
  \/ \E i \in 1..Len(passes) : StatSkip(i) /\ SeePassEnd(i, FALSE) /\ NoDaemon
  \/ \E i \in 1..Len(passes) : StatGrown(i) /\ NoDaemon /\ NoTiming
  \/ \E i \in 1..Len(passes) : ReadDone(i) /\ SeePassEnd(i, TRUE) /\ NoDaemon

Spec == Init /\ [][Next]_vars

\* ----------------------------------------------------------- the daemon
\* The daemon (createDaemon): the watcher with handleIssueEvent listening.
Quiet == UNCHANGED <<daemonVars, eventSeen, ledgerSeen, apartVars, apiVars, seenVars, passSeen>>
Unseen == UNCHANGED <<eventSeen, ledgerSeen, apartVars, apiVars, seenVars, passSeen>>

DaemonInit == InitWith(InitialLedgers)

DaemonNext ==
  \/ \E line \in DaemonLines : AppendLine(line) /\ Quiet
  \/ Tick /\ Quiet
  \/ /\ StartCall
     /\ loadHandlers
     /\ UNCHANGED <<dispatches, crashed, invocations, executed>>
     /\ Unseen
  \/ StartRead /\ Quiet
  \/ StartArm({FALSE}) /\ Quiet
  \/ Stop /\ Quiet
  \/ PollSame /\ Quiet
  \/ PollChanged /\ Quiet
  \/ DebounceFire /\ Quiet
  \/ \E i \in 1..Len(passes) : StatSkip(i) /\ Quiet
  \/ \E i \in 1..Len(passes) : StatGrown(i) /\ Quiet
  \/ \E i \in 1..Len(passes) : ReadDone(i) /\ Dispatched /\ Unseen
  \/ \E i \in 1..Len(dispatches) : DispatchReturn(i) /\ Unseen

DaemonSpec == DaemonInit /\ [][DaemonNext]_vars

\* ------------------------------------------------ the watcher, its events
\* The watcher with a listener that keeps the 'issue' events of a pass, while
\* revisions of one record are appended: it is created, renamed, closed;
\* another record depends on it.
EventLines ==
  {JsonLine("bw-1", "open", 0), JsonLine("bw-1", "open", 1), JsonLine("bw-1", "closed", 0),
   DependentLine("bw-2", "open", <<"bw-1">>)}

Silent == UNCHANGED <<daemonVars, eventSeen, ledgerSeen, apartVars, apiVars, seenVars, passSeen>>

EventNext ==
  \/ \E line \in EventLines : AppendLine(line) /\ Silent
  \/ Tick /\ Silent
  \/ StartCall /\ Silent
  \/ StartRead /\ Silent
  \/ StartArm(BOOLEAN) /\ Silent
  \/ /\ Stop
     /\ stoppedBefore' = TRUE
     /\ UNCHANGED <<daemonVars, emitted, lastCompleted, ledgerSeen, apartVars, apiVars, seenVars, passSeen>>
  \/ NativeNotify /\ Silent
  \/ PollSame /\ Silent
  \/ PollChanged /\ Silent
  \/ DebounceFire /\ Silent
  \/ \E i \in 1..Len(passes) : StatSkip(i) /\ Silent
  \/ \E i \in 1..Len(passes) : StatGrown(i) /\ Silent
  \/ \E i \in 1..Len(passes) :
       /\ ReadDone(i)
       /\ Recorded
       /\ UNCHANGED <<daemonVars, stoppedBefore, lastCompleted, ledgerSeen, apartVars, apiVars, seenVars, passSeen>>

EventSpec == Init /\ [][EventNext]_vars

\* ---------------------------------------------- the watcher, its lifecycle
\* The watcher with a caller that starts and stops it at any time and keeps
\* which of its calls returned last.
Calm == UNCHANGED <<daemonVars, eventSeen, ledgerSeen, apartVars, apiVars, seenVars, passSeen>>

Returned(call) ==
  /\ lastCompleted' = call
  /\ UNCHANGED <<daemonVars, emitted, stoppedBefore, ledgerSeen, apartVars, apiVars, seenVars, passSeen>>

LifecycleNext ==
  \/ \E line \in TimingLines : AppendLine(line) /\ Calm
  \/ Tick /\ Calm
  \/ StartCall /\ Calm
  \/ StartRead /\ Calm
  \/ StartArm(BOOLEAN) /\ Returned("start")
  \/ StartReturns /\ Returned("start")
  \/ Stop /\ Returned("stop")
  \/ StopReturns /\ Returned("stop")
  \/ NativeNotify /\ Calm
  \/ PollSame /\ Calm
  \/ PollChanged /\ Calm
  \/ DebounceFire /\ Calm
  \/ \E i \in 1..Len(passes) : StatSkip(i) /\ Calm
  \/ \E i \in 1..Len(passes) : StatGrown(i) /\ Calm
  \/ \E i \in 1..Len(passes) : ReadDone(i) /\ Calm

LifecycleSpec == Init /\ [][LifecycleNext]_vars

\* ------------------------------------------------------------ the ledger
\* Workflows(beadsDir) on its own: callers record executions; wasExecuted,
\* list, listFailed and retry read the file and change nothing.
\* What record() is called with: issue records for two records and two
\* events, succeeded and failed, with two handlers that fail differently; a
\* manual and a schedule record.
IssueInput(issue, event, status, handler) ==
  [type |-> "issue", issue |-> issue, event |-> event, status |-> status,
   handler |-> handler, trigger |-> "daemon",
   error |-> IF status = "failed" THEN <<"error of", handler>> ELSE Undefined,
   triggered_at |-> Undefined]

RecordInputs ==
  { IssueInput("bw-1", "created", "success", "on.issue.created.ts"),
    IssueInput("bw-1", "created", "failed", "on.issue.created.ts"),
    IssueInput("bw-1", "created", "failed", "on.issue.created.notify.ts"),
    IssueInput("bw-1", "closed", "success", "on.issue.closed.ts"),
    IssueInput("bw-1", "closed", "failed", "on.issue.closed.ts"),
    IssueInput("bw-2", "created", "success", "on.issue.created.ts"),
    IssueInput("bw-2", "created", "failed", "on.issue.created.ts"),
    [IssueInput("bw-2", "closed", "success", "on.issue.closed.ts")
       EXCEPT !.type = "manual", !.trigger = "workflow_dispatch"],
    [IssueInput(Undefined, Undefined, "success", "every.day.ts")
       EXCEPT !.type = "schedule", !.trigger = "schedule"] }

\* new Date().toISOString() at the call.
Times == {"T1", "T2"}

\* One call of record(), from any Workflows instance of the directory.
Record(input, now) ==
  /\ Len(recorded) < MaxRecords
  /\ ledger' = record(ledger, input, now)
  /\ recorded' = Append(recorded, [input EXCEPT !.triggered_at = now])
  /\ listedBefore' = list(ledger, NoFilter)
  /\ UNCHANGED <<log, watcherVars, daemonVars, eventSeen, apartVars, apiVars, seenVars,
                 passSeen>>

LedgerInit == InitWith({NoLedger, [exists |-> TRUE, lines |-> <<>>]})

LedgerNext == \E input \in RecordInputs, now \in Times : Record(input, now)

LedgerSpec == LedgerInit /\ [][LedgerNext]_vars

\* ------------------------------------------------------- a caller of diff
\* The lines of the logs given to diff: revisions of bw-1 that differ in one
\* compared field each, one without updated_at, a closed one, a second id and
\* a line that is not JSON.
DiffLines ==
  { JsonLine("bw-1", "open", 0), JsonLine("bw-1", "open", 1),
    JsonLine("bw-1", "open", 5), JsonLine("bw-1", "open", 6),
    JsonLine("bw-1", "closed", 0), JsonLine("bw-2", "open", 0), GarbageLine }

DiffLogs == UNION { [1..n -> DiffLines] : n \in 0..MaxDiffLen }

\* DiffInput: two contents, or a content and the same content with one more
\* line appended.
DiffInputs ==
  { [before |-> b, after |-> a] : b \in DiffLogs, a \in DiffLogs }
    \cup { [before |-> b, after |-> Append(b, r)] : b \in DiffLogs, r \in DiffLines }

DiffInit ==
  /\ log = <<>>
  /\ Idle({NoLedger})
  /\ diffInput \in DiffInputs
  /\ diffResult = Null
  /\ cachedIssues = Null
  /\ issuesById = Null
  /\ loading = 0
  /\ logExists = TRUE
  /\ lastLoad = Null
  /\ epicIssues = Null
  /\ epicLoading = 0

\* await diff(input)
RunDiff ==
  /\ diffResult = Null
  /\ diffResult' = diff(diffInput.before, diffInput.after)
  /\ UNCHANGED <<log, ledger, watcherVars, daemonVars, eventSeen, ledgerSeen, apartVars,
                 diffInput, cachedIssues, issuesById, loading, logExists, lastLoad,
                 epicIssues, epicLoading, seenVars, passSeen>>

DiffNext == RunDiff

DiffSpec == DiffInit /\ [][DiffNext]_vars

\* ------------------------------------------------------- the issues API
\* createIssuesApi over an issues.jsonl that other processes append to.
ReaderLines ==
  { JsonLine("bw-1", "open", 0), JsonLine("bw-1", "closed", 0),
    JsonLine("bw-2", "open", 0), DependentLine("bw-2", "open", <<"bw-1">>),
    JsonLine("bw-1", "done", 0), GarbageLine }

\* The file is missing, or holds up to MaxRead lines.
ReaderInit ==
  /\ logExists \in BOOLEAN
  /\ log \in IF logExists THEN UNION { [1..n -> ReaderLines] : n \in 0..MaxRead }
             ELSE {<<>>}
  /\ diffInput = [before |-> <<>>, after |-> <<>>]
  /\ diffResult = Null
  /\ cachedIssues = Null
  /\ issuesById = Null
  /\ loading = 0
  /\ lastLoad = Null
  /\ epicIssues = Null
  /\ epicLoading = 0
  /\ Idle({NoLedger})

NoWatcher ==
  UNCHANGED <<daemonVars, eventSeen, ledgerSeen, apartVars, diffInput, diffResult, epicIssues,
              epicLoading, seenVars, passSeen>>

Loaded(value) == [value |-> value]

\* How a promise settled.
Fulfilled(value) == [state |-> "fulfilled", value |-> value]

Rejected == [state |-> "rejected"]

\* Another process appends a line; appending creates a missing file.
AppendToLog(line) ==
  /\ AppendLine(line)
  /\ logExists' = TRUE
  /\ UNCHANGED <<cachedIssues, issuesById, loading, lastLoad>>
  /\ NoWatcher

\* loadIssues up to its await: a read starts when nothing is cached.
loadIssues ==
  /\ cachedIssues = Null
  /\ loading < MaxLoads
  /\ loading' = loading + 1
  /\ UNCHANGED <<log, ledger, watcherVars, cachedIssues, issuesById, logExists, lastLoad>>
  /\ NoWatcher

\* get, list, ready, blocked, count with issues cached: loadIssues returns them.
loadIssuesCached ==
  /\ cachedIssues # Null
  /\ UNCHANGED <<log, ledger, watcherVars, cachedIssues, issuesById, loading,
                 logExists, lastLoad>>
  /\ NoWatcher

\* reload up to the await in loadIssues.
reload ==
  /\ loading < MaxLoads
  /\ cachedIssues' = Null
  /\ issuesById' = Null
  /\ loading' = loading + 1
  /\ UNCHANGED <<log, ledger, watcherVars, logExists, lastLoad>>
  /\ NoWatcher

\* A rejected readFile stored as an empty snapshot.
loadIssuesFailsAsEmpty ==
  /\ loading > 0
  /\ ~logExists
  /\ loading' = loading - 1
  /\ cachedIssues' = Loaded(<<>>)
  /\ issuesById' = Loaded(<<>>)
  /\ lastLoad' = Fulfilled(<<>>)
  /\ UNCHANGED <<log, ledger, watcherVars, logExists>>
  /\ NoWatcher

\* readFile rejects (no such file): readIssuesFromJsonl and loadIssues reject
\* at their await and nothing is assigned.
loadIssuesFails ==
  /\ loading > 0
  /\ ~logExists
  /\ loading' = loading - 1
  /\ lastLoad' = Rejected
  /\ UNCHANGED <<log, ledger, watcherVars, cachedIssues, issuesById, logExists>>
  /\ NoWatcher

\* readIssuesFromJsonl completes and loadIssues stores what it returned.
loadIssuesDone ==
  /\ loading > 0
  /\ logExists
  /\ loading' = loading - 1
  /\ cachedIssues' = Loaded(readIssuesFromJsonl(log))
  /\ issuesById' = Loaded(MapOf(readIssuesFromJsonl(log)))
  /\ lastLoad' = Fulfilled(readIssuesFromJsonl(log))
  /\ UNCHANGED <<log, ledger, watcherVars, logExists>>
  /\ NoWatcher

ReaderNext ==
  \/ \E line \in ReaderLines : AppendToLog(line)
  \/ loadIssues
  \/ loadIssuesCached
  \/ reload
  \/ loadIssuesFails
  \/ loadIssuesDone

ReaderSpec == ReaderInit /\ [][ReaderNext]_vars

\* --------------------------------------------------------- the epics API
\* createEpicsApi over an issues.jsonl with an epic bw-1 and a task bw-2.
EpicLine(id, status) == [JsonLine(id, status, 0) EXCEPT !.issue_type = "epic"]

EpicLines ==
  { EpicLine("bw-1", "open"), DependentLine("bw-2", "open", <<"bw-1">>),
    DependentLine("bw-2", "closed", <<"bw-1">>), JsonLine("bw-2", "open", 0) }

EpicsInit ==
  /\ logExists \in BOOLEAN
  /\ log \in IF logExists THEN UNION { [1..n -> EpicLines] : n \in 0..MaxRead }
             ELSE {<<>>}
  /\ diffInput = [before |-> <<>>, after |-> <<>>]
  /\ diffResult = Null
  /\ cachedIssues = Null
  /\ issuesById = Null
  /\ loading = 0
  /\ lastLoad = Null
  /\ epicIssues = Null
  /\ epicLoading = 0
  /\ Idle({NoLedger})

NoIssuesApi ==
  UNCHANGED <<daemonVars, eventSeen, ledgerSeen, apartVars, diffInput, diffResult, cachedIssues,
              issuesById, loading, lastLoad, seenVars, passSeen>>

\* Another process appends a line; appending creates a missing file.
AppendToEpics(line) ==
  /\ AppendLine(line)
  /\ logExists' = TRUE
  /\ UNCHANGED <<epicIssues, epicLoading>>
  /\ NoIssuesApi

\* loadIssues of the epics API up to its await.
epicsLoadIssues ==
  /\ epicIssues = Null
  /\ epicLoading < MaxLoads
  /\ epicLoading' = epicLoading + 1
  /\ UNCHANGED <<log, ledger, watcherVars, logExists, epicIssues>>
  /\ NoIssuesApi

\* get, list, children, progress with issues cached.
epicsLoadIssuesCached ==
  /\ epicIssues # Null
  /\ UNCHANGED <<log, ledger, watcherVars, logExists, epicIssues, epicLoading>>
  /\ NoIssuesApi

\* epics.reload up to the await in loadIssues.
epicsReload ==
  /\ epicLoading < MaxLoads
  /\ epicIssues' = Null
  /\ epicLoading' = epicLoading + 1
  /\ UNCHANGED <<log, ledger, watcherVars, logExists>>
  /\ NoIssuesApi

\* readFile rejects: nothing is assigned.
epicsLoadIssuesFails ==
  /\ epicLoading > 0
  /\ ~logExists
  /\ epicLoading' = epicLoading - 1
  /\ UNCHANGED <<log, ledger, watcherVars, logExists, epicIssues>>
  /\ NoIssuesApi

\* readIssuesFromJsonl completes and loadIssues stores what it returned.
epicsLoadIssuesDone ==
  /\ epicLoading > 0
  /\ logExists
  /\ epicLoading' = epicLoading - 1
  /\ epicIssues' = Loaded(readIssuesFromJsonl(log))
  /\ UNCHANGED <<log, ledger, watcherVars, logExists>>
  /\ NoIssuesApi

EpicsNext ==
  \/ \E line \in EpicLines : AppendToEpics(line)
  \/ epicsLoadIssues
  \/ epicsLoadIssuesCached
  \/ epicsReload
  \/ epicsLoadIssuesFails
  \/ epicsLoadIssuesDone

EpicsSpec == EpicsInit /\ [][EpicsNext]_vars

\* ------------------------------------- the watcher, a log that is truncated
\* The watcher, polling only, with a listener for 'issue' and one for
\* 'change', over a log that other processes append to and truncate.
TruncationLines == {JsonLine("bw-1", "open", 0), JsonLine("bw-1", "closed", 0)}

\* Another process truncates issues.jsonl to its first n lines.
Truncate(n) ==
  /\ n < Len(log)
  /\ log' = SubSeq(log, 1, n)
  /\ nativeEvents' = IF fsWatcher THEN nativeEvents + 1 ELSE nativeEvents
  /\ UNCHANGED <<ledger, running, fsWatcher, pollInterval, lastSize, knownIssues,
                 debounceTimer, lastPolledSize, startPc, passes>>

Unheard ==
  UNCHANGED <<daemonVars, eventSeen, ledgerSeen, apartVars, apiVars, seenVars, passSeen>>

\* A pass ends: what its listeners were given, and whether it found the log
\* shrunk.
PassEnded(events, change, shrunk) ==
  /\ emitted' = events
  /\ lastPassChange' = change
  /\ shrunkTo' = IF shrunk THEN {FileSize(log)} ELSE shrunkTo
  /\ UNCHANGED <<daemonVars, stoppedBefore, lastCompleted, ledgerSeen, apartVars, apiVars,
                 startedAt, queries, answers, passSeen>>

TruncationNext ==
  \/ \E line \in TruncationLines : AppendLine(line) /\ Unheard
  \/ \E n \in 0..MaxLog :
       /\ Truncate(n)
       /\ shrunkTo' = {}
       /\ UNCHANGED <<daemonVars, eventSeen, ledgerSeen, apartVars, apiVars, lastPassChange,
                      startedAt, queries, answers, passSeen>>
  \/ Tick /\ Unheard
  \/ StartCall /\ Unheard
  \/ StartRead /\ Unheard
  \/ StartArm({FALSE}) /\ Unheard
  \/ PollSame /\ Unheard
  \/ PollChanged /\ Unheard
  \/ DebounceFire /\ Unheard
  \/ \E i \in 1..Len(passes) :
       StatSkip(i) /\ PassEnded(<<>>, FALSE, FileSize(log) < lastSize)
  \/ \E i \in 1..Len(passes) : StatGrown(i) /\ Unheard
  \/ \E i \in 1..Len(passes) :
       /\ ReadDone(i)
       /\ Recorded
       /\ lastPassChange' = TRUE
       /\ UNCHANGED <<daemonVars, stoppedBefore, lastCompleted, ledgerSeen, apartVars, apiVars,
                      shrunkTo, startedAt, queries, answers, passSeen>>

TruncationSpec == Init /\ [][TruncationNext]_vars

\* ----------------------------------------- the daemon, handlers that query
\* The daemon with a handler for issue.created that awaits
\* issues.get(issue.id) on the issues API of the runtime, which createRuntime
\* makes once.
RuntimeLines == {JsonLine("bw-1", "open", 0), JsonLine("bw-2", "open", 0)}

\* The ids of the 'created' events of the pass that ends now.
CreatedNow ==
  LET created == SelectSeq(PassEvents, LAMBDA e : e.type = "created")
  IN  [k \in 1..Len(created) |-> created[k].issue.id]

Answer(id, byId) == [id |-> id, found |-> get(byId, id) # Null]

\* handleIssueEvent -> runtime.execute -> handler -> issues.get -> loadIssues,
\* up to the first await that waits for something: with nothing cached each
\* call starts to read the log; with issues cached get answers from them.
Queried ==
  IF cachedIssues = Null
  THEN /\ queries' = queries \o CreatedNow
       /\ answers' = answers
  ELSE /\ queries' = queries
       /\ answers' = answers \cup
            {Answer(CreatedNow[k], issuesById.value) : k \in 1..Len(CreatedNow)}

\* readIssuesFromJsonl of a pending issues.get completes: loadIssues stores
\* the issues and get answers from them.
QueryDone(i) ==
  /\ ~crashed
  /\ cachedIssues' = Loaded(readIssuesFromJsonl(log))
  /\ issuesById' = Loaded(MapOf(readIssuesFromJsonl(log)))
  /\ answers' = answers \cup {Answer(queries[i], issuesById'.value)}
  /\ queries' = RemoveAt(queries, i)
  /\ UNCHANGED <<log, ledger, watcherVars, daemonVars, eventSeen, ledgerSeen, apartVars,
                 diffInput, diffResult, loading, logExists, lastLoad, epicIssues,
                 epicLoading, lastPassChange, shrunkTo, startedAt, passSeen>>

RuntimeNext ==
  \/ \E line \in RuntimeLines : AppendLine(line) /\ Quiet
  \/ Tick /\ Quiet
  \/ StartCall /\ Quiet
  \/ StartRead /\ Quiet
  \/ StartArm({FALSE}) /\ Quiet
  \/ PollSame /\ Quiet
  \/ PollChanged /\ Quiet
  \/ DebounceFire /\ Quiet
  \/ \E i \in 1..Len(passes) : StatSkip(i) /\ Quiet
  \/ \E i \in 1..Len(passes) : StatGrown(i) /\ Quiet
  \/ \E i \in 1..Len(passes) :
       /\ ReadDone(i)
       /\ Queried
       /\ UNCHANGED <<daemonVars, eventSeen, ledgerSeen, apartVars, apiVars, lastPassChange,
                      shrunkTo, startedAt, passSeen>>
  \/ \E i \in 1..Len(queries) : QueryDone(i)

RuntimeSpec == Init /\ [][RuntimeNext]_vars

\* --------------------------------------- the daemon, handlers that may hang
\* The started daemon while records are created, with handlers that throw
\* nothing: timers fire, while a handler that was invoked returns or never
\* does.
HungLines == {JsonLine("bw-1", "open", 0), JsonLine("bw-2", "open", 0)}

\* The handlers invoked now throw nothing and reject nothing.
NoneThrows ==
  \A k \in 1..Len(dispatches') : dispatches'[k].behaviour = "returns"

HungNext ==
  \/ \E line \in HungLines : AppendLine(line) /\ Quiet
  \/ Tick /\ Quiet
  \/ /\ StartCall
     /\ loadHandlers
     /\ UNCHANGED <<dispatches, crashed, invocations, executed>>
     /\ Unseen
  \/ StartRead /\ Quiet
  \/ StartArm({FALSE}) /\ Quiet
  \/ PollSame /\ Quiet
  \/ PollChanged /\ Quiet
  \/ DebounceFire /\ Quiet
  \/ \E i \in 1..Len(passes) : StatSkip(i) /\ Quiet
  \/ \E i \in 1..Len(passes) : StatGrown(i) /\ Quiet
  \/ \E i \in 1..Len(passes) : ReadDone(i) /\ Dispatched /\ NoneThrows /\ Unseen
  \/ \E i \in 1..Len(dispatches) : DispatchReturn(i) /\ Unseen

HungSpec ==
  /\ Init
  /\ [][HungNext]_vars
  /\ WF_vars(Tick /\ Quiet)
  /\ WF_vars(PollChanged /\ Quiet)
  /\ WF_vars(DebounceFire /\ Quiet)

\* ------------------------------- the watcher, fs.watch that may not be armed
\* The watcher started once while records are created: fs.watch throws,
\* timers fire and file operations complete.
FallbackLines == {JsonLine("bw-1", "open", 0), JsonLine("bw-2", "open", 0)}

\* start() has returned: the length of the log it returned with.
Started ==
  /\ startedAt' = {Len(log)}
  /\ UNCHANGED <<daemonVars, eventSeen, ledgerSeen, apartVars, apiVars, lastPassChange,
                 shrunkTo, queries, answers, passSeen>>

FallbackNext ==
  \/ \E line \in FallbackLines : AppendLine(line) /\ Quiet
  \/ Tick /\ Quiet
  \/ StartCall /\ Quiet
  \/ StartRead /\ Quiet
  \/ StartArm({FALSE}) /\ Started
  \/ PollSame /\ Quiet
  \/ PollChanged /\ Quiet
  \/ DebounceFire /\ Quiet
  \/ \E i \in 1..Len(passes) : StatSkip(i) /\ Quiet
  \/ \E i \in 1..Len(passes) : StatGrown(i) /\ Quiet
  \/ \E i \in 1..Len(passes) : ReadDone(i) /\ Quiet

FallbackSpec ==
  /\ Init
  /\ [][FallbackNext]_vars
  /\ WF_vars(Tick /\ Quiet)
  /\ WF_vars(PollChanged /\ Quiet)
  /\ WF_vars(DebounceFire /\ Quiet)
  /\ WF_vars(\E i \in 1..Len(passes) : StatSkip(i) /\ Quiet)
  /\ WF_vars(\E i \in 1..Len(passes) : StatGrown(i) /\ Quiet)
  /\ WF_vars(\E i \in 1..Len(passes) : ReadDone(i) /\ Quiet)

\* ----------------------------------------------------------------- hooks
\* One hooks instance (createHooks): handlers are registered, the functions
\* register returned are called, any number of times, and events are emitted.
NoHooksElse ==
  UNCHANGED <<log, ledger, watcherVars, daemonVars, eventSeen, ledgerSeen, abortSeen,
              rewriteSeen, overlapVars, askVars, auditSeen, trailSeen, apiVars, seenVars, passSeen>>

Register(event, handler) ==
  /\ Len(unsubscribes) < MaxRegistrations
  /\ handlers' = register(handlers, event, handler)
  /\ unsubscribes' = Append(unsubscribes,
                            [event |-> event, handler |-> handler, called |-> FALSE])
  /\ UNCHANGED invoked
  /\ NoHooksElse

Unsubscribe(k) ==
  /\ handlers' = unsubscribe(handlers, unsubscribes[k].event, unsubscribes[k].handler)
  /\ unsubscribes' = [unsubscribes EXCEPT ![k].called = TRUE]
  /\ UNCHANGED invoked
  /\ NoHooksElse

Emit(event, args) ==
  /\ invoked' = emit(handlers, event, args)
  /\ UNCHANGED <<handlers, unsubscribes>>
  /\ NoHooksElse

HooksNext ==
  \/ \E event \in HookEvents, handler \in HookHandlers : Register(event, handler)
  \/ \E k \in 1..Len(unsubscribes) : Unsubscribe(k)
  \/ \E event \in HookEvents, args \in HookArgs : Emit(event, args)

HooksSpec == Init /\ [][HooksNext]_vars

\* ------------------------------------ the watcher, a listener that throws
\* The watcher created on a log that holds one open record, with an 'issue'
\* listener that may throw, a 'change' and an 'error' listener: the record
\* is closed and reopened, another is created.
ThrowingLog == <<JsonLine("bw-1", "open", 0)>>
ThrowingLines ==
  {JsonLine("bw-1", "closed", 0), JsonLine("bw-1", "open", 0), JsonLine("bw-2", "open", 0)}

ThrowingInit == log = ThrowingLog /\ NoCalls /\ Idle({NoLedger})

\* The events as a listener keeps them.
Kept(events) ==
  [k \in 1..Len(events) |-> [type |-> events[k].type, id |-> events[k].issue.id]]

\* What the listeners of a pass were given.
Heard(events, change, thrown) ==
  /\ emitted' = Kept(events)
  /\ lastPassChange' = change
  /\ errors' = IF thrown THEN errors + 1 ELSE errors
  /\ UNCHANGED <<daemonVars, stoppedBefore, lastCompleted, ledgerSeen, hookVars,
                 rewriteSeen, overlapVars, askVars, auditSeen, trailSeen, apiVars, shrunkTo, startedAt, queries, answers, passSeen>>

AppendMore(line) ==
  /\ Len(log) < Len(ThrowingLog) + MaxAppends
  /\ log' = Append(log, line)
  /\ UNCHANGED <<ledger, running, fsWatcher, pollInterval, lastSize, knownIssues,
                 debounceTimer, lastPolledSize, startPc, passes, nativeEvents>>

ThrowingNext ==
  \/ \E line \in ThrowingLines : AppendMore(line) /\ Quiet
  \/ Tick /\ Quiet
  \/ StartCall /\ Quiet
  \/ StartRead /\ Quiet
  \/ StartArm({FALSE}) /\ Quiet
  \/ PollSame /\ Quiet
  \/ PollChanged /\ Quiet
  \/ DebounceFire /\ Quiet
  \/ \E i \in 1..Len(passes) :
       StatSkip(i) /\ Heard(<<>>, FALSE, FALSE) /\ UNCHANGED aborted
  \/ \E i \in 1..Len(passes) : StatGrown(i) /\ Quiet
  \/ \E i \in 1..Len(passes) :
       /\ ReadDone(i)
       /\ Heard(PassEvents, TRUE, FALSE)
       /\ aborted' = {[a EXCEPT !.next = IF @ = {} THEN {log} ELSE @] : a \in aborted}
  \/ \E i \in 1..Len(passes), k \in 1..Len(PassEvents) :
       /\ ReadThrows(i, k)
       /\ Heard(SubSeq(PassEvents, 1, k), FALSE, TRUE)
       /\ aborted' = {[delivered |-> Kept(SubSeq(PassEvents, 1, k - 1)), log |-> log,
                        next |-> {}]}

ThrowingSpec == ThrowingInit /\ [][ThrowingNext]_vars

\* ------------------------------------- the watcher, a log that is rewritten
\* The watcher, polling only and started once, with a listener for 'issue'
\* and one for 'change', over a log that other processes append an open
\* record to, empty once while the watcher runs, and rewrite in place: the
\* first line is closed or reopened.
Rewrite(k, line) ==
  /\ k \in 1..Len(log)
  /\ log[k] # line
  /\ log' = [log EXCEPT ![k] = line]
  /\ UNCHANGED <<ledger, running, fsWatcher, pollInterval, lastSize, knownIssues,
                 debounceTimer, lastPolledSize, startPc, passes, nativeEvents>>

\* A pass ends: what its listeners were given.
Seen(events, change) ==
  /\ emitted' = Kept(events)
  /\ lastPassChange' = change
  /\ truncated' = IF change THEN {[t EXCEPT !.compared = TRUE] : t \in truncated}
                  ELSE truncated
  /\ UNCHANGED <<daemonVars, stoppedBefore, lastCompleted, ledgerSeen, hookVars,
                 abortSeen, overlapVars, askVars, auditSeen, trailSeen, apiVars, shrunkTo, startedAt, queries, answers, passSeen>>

RewriteNext ==
  \/ AppendLine(JsonLine("bw-1", "open", 0)) /\ Unheard
  \/ /\ Truncate(0)
     /\ truncated = {}
     /\ truncated' = IF running THEN {[snapshot |-> knownIssues, compared |-> FALSE]}
                     ELSE truncated
     /\ UNCHANGED <<daemonVars, eventSeen, ledgerSeen, hookVars, abortSeen, overlapVars,
                    askVars, auditSeen, trailSeen, apiVars, seenVars, passSeen>>
  \/ \E line \in TruncationLines : Rewrite(1, line) /\ Unheard
  \/ Tick /\ Unheard
  \/ StartCall /\ Unheard
  \/ StartRead /\ Unheard
  \/ StartArm({FALSE}) /\ Unheard
  \/ PollSame /\ Unheard
  \/ PollChanged /\ Unheard
  \/ DebounceFire /\ Unheard
  \/ \E i \in 1..Len(passes) : StatSkip(i) /\ Seen(<<>>, FALSE)
  \/ \E i \in 1..Len(passes) : StatGrown(i) /\ Unheard
  \/ \E i \in 1..Len(passes) : ReadDone(i) /\ Seen(PassEvents, TRUE)

RewriteSpec == Init /\ [][RewriteNext]_vars

\* ------------------------------------- the watcher, calls that overlap
\* The watcher with a caller that calls start() and stop() at any time, a
\* start() in flight included. Every timeout and every subscription the
\* calls create is kept apart from the variable that refers to it; the order
\* in which the pending timeouts fire is free, their delays are left out.
Alone ==
  UNCHANGED <<daemonVars, eventSeen, ledgerSeen, hookVars, abortSeen, rewriteSeen,
              askVars, auditSeen, trailSeen, apiVars, seenVars, passSeen>>

\* start() up to its first await: if (running) return, else loadInitialState
\* begins to read the log.
StartAgain ==
  /\ started < MaxStarts
  /\ started' = started + 1
  /\ starts' = IF running THEN starts
               ELSE Append(starts, [id |-> started + 1, pc |-> "readFile"])
  /\ stopMidStart' = FALSE
  /\ UNCHANGED <<log, ledger, watcherVars, subscriptions, watchHandle, pollTimers,
                 pollHandle>>
  /\ Alone

\* loadInitialState of the i-th call in flight, after readFile.
LoadRead(i) ==
  /\ starts[i].pc = "readFile"
  /\ knownIssues' = parseToMap(log)
  /\ starts' = [starts EXCEPT ![i].pc = "stat"]
  /\ UNCHANGED <<log, ledger, running, fsWatcher, pollInterval, lastSize, debounceTimer,
                 lastPolledSize, startPc, nativeEvents, passes, started, subscriptions,
                 watchHandle, pollTimers, pollHandle, stopMidStart>>
  /\ Alone

\* loadInitialState of the i-th call in flight, after stat, and the rest of
\* start(): fs.watch is armed (or throws and is skipped), running is set,
\* the first timeout of a poll loop is armed.
LoadStat(i, armed) ==
  /\ starts[i].pc = "stat"
  /\ lastSize' = FileSize(log)
  /\ subscriptions' = IF armed THEN subscriptions \cup {starts[i].id} ELSE subscriptions
  /\ watchHandle' = IF armed THEN {starts[i].id} ELSE watchHandle
  /\ running' = TRUE
  /\ lastPolledSize' = lastSize'
  /\ pollTimers' = pollTimers \cup {starts[i].id}
  /\ pollHandle' = {starts[i].id}
  /\ starts' = RemoveAt(starts, i)
  /\ UNCHANGED <<log, ledger, fsWatcher, pollInterval, knownIssues, debounceTimer,
                 startPc, nativeEvents, passes, started, stopMidStart>>
  /\ Alone

\* stop(): if (!running) return; else the debounce timer, the timeout
\* pollInterval refers to and the subscription fsWatcher refers to are
\* released.
StopAgain ==
  /\ debounceTimer' = IF running THEN NoTimer ELSE debounceTimer
  /\ pollTimers' = IF running THEN pollTimers \ pollHandle ELSE pollTimers
  /\ pollHandle' = IF running THEN {} ELSE pollHandle
  /\ subscriptions' = IF running THEN subscriptions \ watchHandle ELSE subscriptions
  /\ watchHandle' = IF running THEN {} ELSE watchHandle
  /\ running' = FALSE
  /\ stopMidStart' = (stopMidStart \/ starts # <<>>)
  /\ UNCHANGED <<log, ledger, fsWatcher, pollInterval, lastSize, knownIssues,
                 lastPolledSize, startPc, nativeEvents, passes, starts, started>>
  /\ Alone

\* The timeout of the poll loop t fires: poll returns when the watcher is
\* not running; else it triggers when the size is not the one polled last,
\* and arms its next timeout.
Poll(t) ==
  /\ t \in pollTimers
  /\ pollTimers' = IF running THEN pollTimers ELSE pollTimers \ {t}
  /\ pollHandle' = IF running THEN {t} ELSE pollHandle
  /\ lastPolledSize' = IF running THEN FileSize(log) ELSE lastPolledSize
  /\ IF running /\ FileSize(log) # lastPolledSize
     THEN debouncedProcess
     ELSE UNCHANGED <<debounceTimer, passes>>
  /\ UNCHANGED <<log, ledger, running, fsWatcher, pollInterval, lastSize, knownIssues,
                 startPc, nativeEvents, starts, started, subscriptions, watchHandle,
                 stopMidStart>>
  /\ Alone

\* The callback of the subscription s with eventType 'change'.
Notified(s) ==
  /\ s \in subscriptions
  /\ debouncedProcess
  /\ UNCHANGED <<log, ledger, running, fsWatcher, pollInterval, lastSize, knownIssues,
                 lastPolledSize, startPc, nativeEvents, overlapVars>>
  /\ Alone

OverlapNext ==
  \/ AppendLine(JsonLine("bw-1", "open", 0)) /\ Calm
  \/ Tick /\ Calm
  \/ StartAgain
  \/ \E i \in 1..Len(starts) : LoadRead(i)
  \/ \E i \in 1..Len(starts) : \E armed \in BOOLEAN : LoadStat(i, armed)
  \/ StopAgain
  \/ \E t \in pollTimers : Poll(t)
  \/ \E s \in subscriptions : Notified(s)
  \/ DebounceFire /\ Calm
  \/ \E i \in 1..Len(passes) : StatSkip(i) /\ Calm
  \/ \E i \in 1..Len(passes) : StatGrown(i) /\ Calm
  \/ \E i \in 1..Len(passes) : ReadDone(i) /\ Calm

OverlapSpec == Init /\ [][OverlapNext]_vars

\* ------------------------------------ the issues API, calls that overlap
\* createIssuesApi with a caller that calls ready(), blocked() and reload()
\* at any time, over an issues.jsonl that other processes append to. A call
\* whose loadIssues has returned resumes in a microtask. When loadIssues
\* returned the cached list at once, the code of the caller that follows the
\* call runs before that microtask; when it returned after its read, the
\* microtask follows with nothing between. No completion of readFile comes
\* before a pending microtask.
Asked ==
  UNCHANGED <<ledger, watcherVars, daemonVars, eventSeen, ledgerSeen, hookVars, abortSeen,
              rewriteSeen, overlapVars, auditSeen, trailSeen, diffInput, diffResult, lastLoad, epicIssues,
              epicLoading, seenVars, passSeen>>

AskOps == {"ready", "blocked"}

Resuming == \E k \in 1..Len(asks) : asks[k].pc = "resume"

\* Another process appends a line.
AppendAsked(line) ==
  /\ Len(log) < MaxLog
  /\ log' = Append(log, line)
  /\ logExists' = TRUE
  /\ UNCHANGED <<cachedIssues, issuesById, loading, askVars>>
  /\ Asked

\* ready() or blocked() up to `await loadIssues()`: loadIssues begins a read
\* when nothing is cached, and returns the cached list otherwise.
Ask(op) ==
  /\ Len(asks) < MaxLoads
  /\ asks' = Append(asks, IF cachedIssues = Null
                          THEN [op |-> op, pc |-> "read", issues |-> <<>>]
                          ELSE [op |-> op, pc |-> "resume", issues |-> cachedIssues.value])
  /\ loading' = IF cachedIssues = Null THEN loading + 1 ELSE loading
  /\ UNCHANGED <<log, logExists, cachedIssues, issuesById, evaluated>>
  /\ Asked

\* reload() up to the await in loadIssues.
Reload ==
  /\ Len(asks) < MaxLoads
  /\ cachedIssues' = Null
  /\ issuesById' = Null
  /\ asks' = Append(asks, [op |-> "reload", pc |-> "read", issues |-> <<>>])
  /\ loading' = loading + 1
  /\ UNCHANGED <<log, logExists, evaluated>>
  /\ Asked

\* ready() or blocked() after `await loadIssues()`: byId = issuesById!, and
\* the list loadIssues returned is filtered.
Resume(i) ==
  /\ asks[i].pc = "resume"
  /\ evaluated' = {[op |-> asks[i].op, issues |-> asks[i].issues, byId |-> issuesById]}
  /\ asks' = RemoveAt(asks, i)
  /\ UNCHANGED <<log, logExists, cachedIssues, issuesById, loading>>
  /\ Asked

\* readIssuesFromJsonl completes for the i-th call: loadIssues stores the
\* list and the index and returns the list; reload() is done, ready() and
\* blocked() resume and filter the list.
Read(i) ==
  /\ asks[i].pc = "read"
  /\ ~Resuming
  /\ logExists
  /\ loading' = loading - 1
  /\ cachedIssues' = Loaded(readIssuesFromJsonl(log))
  /\ issuesById' = Loaded(MapOf(readIssuesFromJsonl(log)))
  /\ evaluated' = IF asks[i].op = "reload" THEN evaluated
                  ELSE {[op |-> asks[i].op, issues |-> cachedIssues'.value,
                         byId |-> issuesById']}
  /\ asks' = RemoveAt(asks, i)
  /\ UNCHANGED <<log, logExists>>
  /\ Asked

\* readFile rejects for the i-th call: the call rejects, nothing is assigned.
ReadFails(i) ==
  /\ asks[i].pc = "read"
  /\ ~Resuming
  /\ ~logExists
  /\ loading' = loading - 1
  /\ asks' = RemoveAt(asks, i)
  /\ UNCHANGED <<log, logExists, cachedIssues, issuesById, evaluated>>
  /\ Asked

AskLines == {JsonLine("bw-1", "open", 0), DependentLine("bw-2", "open", <<"bw-1">>)}

\* The file is missing, or holds up to MaxStored lines.
AskInit ==
  /\ logExists \in BOOLEAN
  /\ log \in IF logExists THEN UNION { [1..n -> AskLines] : n \in 0..MaxStored } ELSE {<<>>}
  /\ diffInput = [before |-> <<>>, after |-> <<>>]
  /\ diffResult = Null
  /\ cachedIssues = Null
  /\ issuesById = Null
  /\ loading = 0
  /\ lastLoad = Null
  /\ epicIssues = Null
  /\ epicLoading = 0
  /\ Idle({NoLedger})

AskNext ==
  \/ \E line \in AskLines : AppendAsked(line)
  \/ \E op \in AskOps : Ask(op)
  \/ Reload
  \/ \E i \in 1..Len(asks) : Resume(i)
  \/ \E i \in 1..Len(asks) : Read(i)
  \/ \E i \in 1..Len(asks) : ReadFails(i)

AskSpec == AskInit /\ [][AskNext]_vars

\* ------------------------------------------- the ledger, its queries
\* Workflows(beadsDir) over a workflows.jsonl that is missing or was left by
\* other runs, with lines that are empty or are not JSON among its lines:
\* callers record executions of bw-1 and query the ledger.
RecordedFailure ==
  Stringify([type |-> "issue", issue |-> "bw-1", event |-> "created",
             status |-> "failed", handler |-> "on.issue.created.ts",
             trigger |-> "push", error |-> <<"error of", "push">>, triggered_at |-> 1])

StoredLines == {RecordedSuccess, RecordedFailure, GarbageLine, BlankLine}

AuditInputs ==
  { IssueInput("bw-1", "created", "failed", "on.issue.created.ts"),
    IssueInput("bw-1", "created", "success", "on.issue.created.ts") }

AuditIssues == {"bw-1", "bw-2"}
AuditEvents == {"created", "closed"}
AuditFilters ==
  { NoFilter, [NoFilter EXCEPT !.issue = "bw-1"] }

AuditInit ==
  /\ log = <<>>
  /\ NoCalls
  /\ Idle({NoLedger} \cup
          { [exists |-> TRUE, lines |-> lines] :
              lines \in UNION { [1..n -> StoredLines] : n \in 0..MaxStored } })

\* A query returns: the file is as it was.
Answered(query, args, result) ==
  /\ answer' = {[query |-> query, args |-> args, result |-> result]}
  /\ UNCHANGED <<log, ledger, watcherVars, daemonVars, eventSeen, ledgerSeen, hookVars,
                 abortSeen, rewriteSeen, overlapVars, askVars, trailSeen, apiVars, seenVars,
                 passSeen>>

WasExecuted(issue, event) ==
  Answered("wasExecuted", <<issue, event>>, wasExecuted(ledger, issue, event))

List(filter) == Answered("list", <<filter>>, list(ledger, filter))

ListFailed == Answered("listFailed", <<>>, listFailed(ledger))

Retry(issue, event) == Answered("retry", <<issue, event>>, retry(ledger, issue, event))

AuditNext ==
  \/ \E input \in AuditInputs : Record(input, "T1")
  \/ \E issue \in AuditIssues, event \in AuditEvents : WasExecuted(issue, event)
  \/ \E filter \in AuditFilters : List(filter)
  \/ ListFailed
  \/ \E issue \in AuditIssues, event \in AuditEvents : Retry(issue, event)

AuditSpec == AuditInit /\ [][AuditNext]_vars

\* ------------------------------------ the watcher, how long a burst lasts
\* The watcher on its own, started once and left running while revisions of
\* one record are appended, observed as in Spec and for how long a burst of
\* triggers holds its pass back. Timers that are due fire and file
\* operations complete.
Apart ==
  UNCHANGED <<daemonVars, eventSeen, ledgerSeen, hookVars, abortSeen, rewriteSeen,
              overlapVars, askVars, auditSeen, apiVars, seenVars>>

Lasting == UNCHANGED stretch

\* A tick while the burst waits for its pass.
LastsTick ==
  stretch' = IF burstTriggers > 0 /\ stretch.ticks < DebounceTicks
             THEN [stretch EXCEPT !.ticks = @ + 1]
             ELSE stretch

\* A trigger: the first of a burst, or one more.
LastsTrigger ==
  stretch' = IF burstTriggers = 0 \/ quiet >= DebounceTicks
             THEN [ticks |-> 0, held |-> FALSE]
             ELSE [stretch EXCEPT !.held = (stretch.ticks >= DebounceTicks)]

Ticked == Tick /\ SeeTick /\ LastsTick /\ Apart

Fired == DebounceFire /\ SeeFire /\ Lasting /\ Apart

\* A pass in flight goes on.
Advanced ==
  \/ \E i \in 1..Len(passes) : StatSkip(i) /\ SeePassEnd(i, FALSE) /\ Lasting /\ Apart
  \/ \E i \in 1..Len(passes) : StatGrown(i) /\ NoTiming /\ Lasting /\ Apart
  \/ \E i \in 1..Len(passes) : ReadDone(i) /\ SeePassEnd(i, TRUE) /\ Lasting /\ Apart

TrailingNext ==
  \/ AppendLine(JsonLine("bw-1", "open", 0)) /\ NoTiming /\ Lasting /\ Apart
  \/ Ticked
  \/ StartCall /\ NoTiming /\ Lasting /\ Apart
  \/ StartRead /\ NoTiming /\ Lasting /\ Apart
  \/ StartArm(BOOLEAN) /\ NoTiming /\ Lasting /\ Apart
  \/ NativeNotify /\ SeeTrigger /\ LastsTrigger /\ Apart
  \/ PollSame /\ NoTiming /\ Lasting /\ Apart
  \/ PollChanged /\ SeeTrigger /\ LastsTrigger /\ Apart
  \/ Fired
  \/ Advanced

TrailingSpec ==
  /\ Init
  /\ [][TrailingNext]_vars
  /\ WF_vars(Ticked)
  /\ WF_vars(Fired \/ Advanced)

\* =============================================================== claims
\* ------------------------------------------------------- watcher, timing

\* C1: at most one reconciliation pass (processChanges) of a watcher is in
\* flight at any time: a second pass never starts before the previous one has
\* finished.
OnePassInFlight == Len(passes) <= 1

\* C2: triggers that arrive while a pass is in flight cause exactly one
\* further pass, and that pass starts after the pass in flight has completed:
\* no pass caused by such a trigger starts while the pass is still in flight,
\* and the triggers of one pass never cause more than one pass.
OneFurtherPassAfterCompletion == ~overlap /\ worst <= 1

\* C9: triggers that each arrive within debounceMs of the one before collapse
\* into a single pass, which starts only when debounceMs has passed without a
\* trigger; k >= 2 such triggers produce fewer than k 'change' notifications.
DebounceCollapses ==
  /\ ~earlyStart
  /\ burstFires <= 1
  /\ burstTriggers >= 2 => burstChanges < burstTriggers

\* C9, its case: a burst of three triggers, which takes two appends (an
\* append causes one native and one poll trigger at most), has been answered
\* by one pass, which has read both lines and emitted 'change' once.
BurstCollapsed ==
  /\ burstTriggers >= 3 /\ burstFires = 1 /\ burstChanges = 1
  /\ Len(log) = 2 /\ lastSize = 2 /\ passes = <<>>

\* ---------------------------------------------------------------- daemon

\* C3: the daemon never invokes a handler for a record and an event for which
\* the ledger already holds a success entry, entries written before the
\* daemon was started included.
NoInvocationOfExecuted == \A v \in invocations : ~v.executedBefore

\* C4: every handler invocation of the dispatcher appends exactly one
\* execution record to the ledger before the dispatch of its event returns:
\* in the step in which a dispatch returns the ledger has one record more.
DispatchAppendsRecord ==
  [][Len(dispatches') < Len(dispatches)
       => ledger'.exists /\ Len(ledger'.lines) = Len(ledger.lines) + 1]_vars

\* C5: runtime.execute never throws or rejects, whatever the handler throws
\* or rejects with, so a failing handler never ends the dispatch of the events
\* that follow it: no dispatch ends with the promise of execute rejected.
ExecuteNeverRejects == ~crashed

\* ---------------------------------------------------------------- ledger
LedgerEvents == {"created", "closed"}

\* The calls of record() so far that recorded a given status for a record
\* and an event, as issue-triggered entries.
CallsWith(issue, event, status) ==
  {k \in 1..Len(recorded) :
     /\ recorded[k].type = "issue" /\ recorded[k].issue = issue
     /\ recorded[k].event = event /\ recorded[k].status = status}

\* C6: after any sequence of record() calls wasExecuted(id, event) is true if
\* and only if a recorded entry is issue-triggered with that id, that event
\* and status success; failed entries alone never make it true and failed
\* entries recorded after a success never turn it back to false.
WasExecutedIffSuccessRecorded ==
  \A issue \in Ids, event \in LedgerEvents :
    wasExecuted(ledger, issue, event) <=> CallsWith(issue, event, "success") # {}

\* C6, its case: a success was recorded for a pair, a failed entry for the
\* same pair after it, and a success that is not issue-triggered for another
\* pair.
SuccessThenFailedRecorded ==
  /\ \E k \in CallsWith("bw-1", "created", "success") :
       \E j \in CallsWith("bw-1", "created", "failed") : k < j
  /\ wasExecuted(ledger, "bw-1", "created")
  /\ \E k \in 1..Len(recorded) :
       recorded[k].type = "manual" /\ recorded[k].status = "success"
  /\ \A issue \in Ids, event \in LedgerEvents :
       <<issue, event>> # <<"bw-1", "created">> => ~wasExecuted(ledger, issue, event)

IsPrefix(s, t) == Len(s) <= Len(t) /\ SubSeq(t, 1, Len(s)) = s

\* C7: record() appends exactly one entry and leaves the earlier entries as
\* they were: after n calls list() returns the n entries in the order of the
\* calls, and what list() returned before a call is a prefix of what it
\* returns after it.
RecordAppendsOne ==
  /\ list(ledger, NoFilter) = recorded
  /\ IsPrefix(listedBefore, list(ledger, NoFilter))
  /\ recorded # <<>> => Len(list(ledger, NoFilter)) = Len(listedBefore) + 1

\* C7, its case: three calls with three different inputs.
ThreeRecorded ==
  /\ Len(recorded) = MaxRecords
  /\ Len(listedBefore) = MaxRecords - 1
  /\ \A k, j \in 1..Len(recorded) : k # j => recorded[k] # recorded[j]

\* C8: retry(id, event) returns the handler and the error of the failed entry
\* of the pair that was appended last, and null when the pair has no failed
\* entry.
RetryReturnsLastFailed ==
  \A issue \in Ids, event \in LedgerEvents :
    LET failed == CallsWith(issue, event, "failed")
    IN  retry(ledger, issue, event) =
          IF failed = {} THEN Null
          ELSE LET last == recorded[CHOOSE k \in failed : \A j \in failed : j <= k]
               IN  [issue |-> issue, event |-> event,
                    handler |-> last.handler, error |-> last.error]

\* ------------------------------------------------------- watcher, events
\* The events the claim expects for a diff: one per record that diff reports,
\* created / closed / updated as in diff, reopened in place of updated when
\* the status was closed and is not closed any more.
EventsOfDiff(d) ==
  {[type |-> "created", id |-> d.created[k].id] : k \in 1..Len(d.created)}
  \cup {[type |-> "closed", id |-> d.closed[k].id] : k \in 1..Len(d.closed)}
  \cup {[type |-> IF d.updated[k].before.status = "closed"
                     /\ d.updated[k].after.status # "closed"
                  THEN "reopened" ELSE "updated",
         id |-> d.updated[k].id] : k \in 1..Len(d.updated)}

ReadsInFlight(ps) == Cardinality({k \in 1..Len(ps) : ps[k].pc = "read"})

\* C10: in every pass that is not skipped the watcher emits an 'issue' event
\* for exactly the records diff(baseline, new snapshot) reports as created,
\* updated or closed, one event per record, a record of which only the title
\* changed included.
EventsRefineDiff ==
  [][ReadsInFlight(passes') < ReadsInFlight(passes)
       => /\ {emitted'[k] : k \in 1..Len(emitted')}
               = EventsOfDiff(diffMaps(knownIssues, knownIssues'))
          /\ Len(emitted') = Cardinality(EventsOfDiff(diffMaps(knownIssues, knownIssues')))
     ]_vars

\* A record that is in both snapshots, not closed in either, with the same
\* fields, and blocked in one of them only.
ReadinessFlips(id, known, current) ==
  LET previous == MapGet(known, id)
      issue    == MapGet(current, id)
  IN  /\ previous # Null /\ issue # Null
      /\ previous = issue
      /\ issue.status # "closed"
      /\ isBlocked(previous, known) # isBlocked(issue, current)

\* C11: when a pass changes the snapshot so that a record that is not closed
\* turns from blocked to ready or from ready to blocked, the watcher emits an
\* event for that record in that pass, though its own fields did not change.
ReadinessFlipEmits ==
  [][ReadsInFlight(passes') < ReadsInFlight(passes)
       => \A id \in Ids :
            ReadinessFlips(id, knownIssues, knownIssues')
              => \E k \in 1..Len(emitted') : emitted'[k].id = id
     ]_vars

\* C12: after stop() has returned no new pass and no new handler dispatch
\* starts, also when a pass or a dispatch was in flight at the stop: while the
\* watcher is stopped and no start() is under way, no step starts a pass and
\* no step begins a handler invocation.
NoNewWorkAfterStop ==
  [][(Len(passes') > Len(passes) \/ Len(dispatches') > Len(dispatches))
       => running \/ startPc # "idle"]_vars

\* The lines of the log a baseline of the given size covers.
Covered(size) == SubSeq(log, 1, size)

\* C13: after stop() followed by start() the baseline is the log as it is at
\* that start(), so that revisions that were in the log then produce no
\* event afterwards and every revision appended later is reported by a pass
\* exactly once: when the start() returns, the snapshot and the size of the
\* baseline are those of one state of the log, and every later pass that is
\* not skipped emits one event for each record that differs from the log the
\* baseline covers, and no other event.
RestartBaselineIsLog ==
  [][stoppedBefore
       => /\ (startPc = "stat" /\ startPc' = "idle")
               => knownIssues' = parseToMap(SubSeq(log', 1, lastSize'))
          /\ (running /\ ReadsInFlight(passes') < ReadsInFlight(passes))
               => /\ {emitted'[k] : k \in 1..Len(emitted')}
                       = EventsOfDiff(diff(Covered(lastSize), log))
                  /\ Len(emitted')
                       = Cardinality(EventsOfDiff(diff(Covered(lastSize), log)))
     ]_vars

\* ---------------------------------------------------- watcher, lifecycle

NoEntries == [created |-> <<>>, updated |-> <<>>, closed |-> <<>>]

\* C15: diff of a content against itself returns created = [], updated = []
\* and closed = [].
DiffOfSameIsEmpty ==
  (diffResult # Null /\ diffInput.before = diffInput.after)
    => diffResult = NoEntries

\* The last line of a content that is a record of the identifier, or Null.
LastOf(content, id) ==
  LET at == {k \in 1..Len(content) : content[k].kind = "json" /\ content[k].id = id}
  IN  IF at = {} THEN Null ELSE content[CHOOSE k \in at : \A j \in at : j <= k]

\* The identifiers of the entries of a result, list after list.
EntryIds(result) ==
  [k \in 1..Len(result.created) |-> result.created[k].id]
    \o [k \in 1..Len(result.updated) |-> result.updated[k].id]
    \o [k \in 1..Len(result.closed) |-> result.closed[k].id]

Closes(input, id) ==
  /\ LastOf(input.before, id) # Null
  /\ LastOf(input.after, id) # Null
  /\ LastOf(input.before, id).status # "closed"
  /\ LastOf(input.after, id).status = "closed"

\* C16: every identifier has at most one entry in created, updated and closed
\* together; a record whose status goes from a status other than closed to
\* closed has its entry in closed and none in updated or created.
OneEntryPerId ==
  diffResult # Null =>
    LET ids == EntryIds(diffResult)
    IN  /\ \A i, j \in 1..Len(ids) : ids[i] = ids[j] => i = j
        /\ \A id \in Ids :
             Closes(diffInput, id) =>
               /\ \E k \in 1..Len(diffResult.closed) : diffResult.closed[k].id = id
               /\ \A k \in 1..Len(diffResult.updated) : diffResult.updated[k].id # id
               /\ \A k \in 1..Len(diffResult.created) : diffResult.created[k].id # id

\* A result with a closed record and a created one.
ClosedAndCreated ==
  /\ diffResult # Null
  /\ Closes(diffInput, "bw-1")
  /\ Len(diffResult.closed) = 1
  /\ Len(diffResult.created) = 1

\* The after log is the before log, which ends with a revision r2 of the
\* identifier, plus one further revision r3 of it.
OneMoreRevision(input, id) ==
  LET n == Len(input.before)
  IN  /\ n >= 1
      /\ Len(input.after) = n + 1
      /\ SubSeq(input.after, 1, n) = input.before
      /\ input.before[n].kind = "json" /\ input.before[n].id = id
      /\ input.after[n + 1].kind = "json" /\ input.after[n + 1].id = id

\* The entries of a list of a result that are about the identifier.
EntriesOf(entries, id) == {k \in 1..Len(entries) : entries[k].id = id}

\* C17 as stated: when the before log ends with revision r2 of an identifier
\* and the after log is the before log plus a further, different revision r3
\* of it, the result holds exactly one updated entry for the identifier, with
\* before = r2 and after = r3, and no other entry for it.
ThirdRevisionIsUpdated ==
  \A id \in Ids :
    (/\ diffResult # Null
     /\ OneMoreRevision(diffInput, id)
     /\ diffInput.after[Len(diffInput.after)] # diffInput.before[Len(diffInput.before)])
    => LET r2 == parseJsonlLine(diffInput.before[Len(diffInput.before)])
           r3 == parseJsonlLine(diffInput.after[Len(diffInput.after)])
       IN  /\ EntriesOf(diffResult.created, id) = {}
           /\ EntriesOf(diffResult.closed, id) = {}
           /\ Cardinality(EntriesOf(diffResult.updated, id)) = 1
           /\ \A k \in EntriesOf(diffResult.updated, id) :
                diffResult.updated[k] = [id |-> id, before |-> r2, after |-> r3]

\* C17: when the before log ends with revision r2 of an identifier and the
\* after log is the before log plus a further revision r3 of it, the result
\* holds at most one entry for the identifier and it is built from r2 and r3
\* alone: never a created entry; a closed entry holding r3 exactly when r2 is
\* not closed and r3 is; otherwise an updated entry with before = r2 and
\* after = r3 when r3 differs from r2 in a compared field, and no entry when r3
\* equals r2 and carries a timestamp.
ThirdRevisionAgainstSecond ==
  \A id \in Ids :
    (diffResult # Null /\ OneMoreRevision(diffInput, id))
    => LET l2 == diffInput.before[Len(diffInput.before)]
           l3 == diffInput.after[Len(diffInput.after)]
           r2 == parseJsonlLine(l2)
           r3 == parseJsonlLine(l3)
           closing == l2.status # "closed" /\ l3.status = "closed"
           inClosed  == EntriesOf(diffResult.closed, id)
           inUpdated == EntriesOf(diffResult.updated, id)
       IN  /\ EntriesOf(diffResult.created, id) = {}
           /\ Cardinality(inClosed) + Cardinality(inUpdated) <= 1
           /\ \A k \in inClosed : diffResult.closed[k] = r3
           /\ \A k \in inUpdated :
                diffResult.updated[k] = [id |-> id, before |-> r2, after |-> r3]
           /\ closing => inClosed # {}
           /\ ~closing => inClosed = {}
           /\ (~closing /\ l3 # l2) => inUpdated # {}
           /\ (l3 = l2 /\ l2.updated_at # Undefined) => inUpdated = {}

\* Three different revisions of bw-1, the third diffed against the first two,
\* reported as one update.
ThreeRevisionsDiffed ==
  /\ diffResult # Null
  /\ OneMoreRevision(diffInput, "bw-1")
  /\ Len(diffInput.after) = 3
  /\ \A k \in 1..3 : diffInput.after[k].kind = "json" /\ diffInput.after[k].id = "bw-1"
  /\ \A i, j \in 1..3 : diffInput.after[i] = diffInput.after[j] => i = j
  /\ Len(diffResult.updated) = 1

\* The reference classification of an identifier: by the last revision of it
\* in each log, the six fields compared by value.
Classification(input, id) ==
  LET b == LastOf(input.before, id)
      a == LastOf(input.after, id)
  IN  IF a = Null THEN "none"
      ELSE IF b = Null THEN "created"
      ELSE IF /\ b.status = a.status /\ b.title = a.title /\ b.priority = a.priority
              /\ b.assignee = a.assignee /\ b.description = a.description
              /\ b.updated_at = a.updated_at
      THEN "none"
      ELSE IF b.status # "closed" /\ a.status = "closed" THEN "closed"
      ELSE "updated"

\* C18: diff is the reference classification: an identifier of after that is
\* absent from before is in created; one present in before with a compared
\* field different is in closed when it goes from a status other than closed
\* to closed and in updated, with its before and after state, otherwise; one
\* with no difference, or present in before only, has no entry.
DiffIsReference ==
  diffResult # Null =>
    \A id \in Ids :
      LET class == Classification(diffInput, id)
          b == parseJsonlLine(LastOf(diffInput.before, id))
          a == parseJsonlLine(LastOf(diffInput.after, id))
      IN  /\ Cardinality(EntriesOf(diffResult.created, id))
               = IF class = "created" THEN 1 ELSE 0
          /\ Cardinality(EntriesOf(diffResult.closed, id))
               = IF class = "closed" THEN 1 ELSE 0
          /\ Cardinality(EntriesOf(diffResult.updated, id))
               = IF class = "updated" THEN 1 ELSE 0
          /\ \A k \in EntriesOf(diffResult.created, id) : diffResult.created[k] = a
          /\ \A k \in EntriesOf(diffResult.closed, id) : diffResult.closed[k] = a
          /\ \A k \in EntriesOf(diffResult.updated, id) :
               diffResult.updated[k] = [id |-> id, before |-> b, after |-> a]

\* ------------------------------------------------------------ the reader
\* A load completes in this step: the issues API stores a snapshot.
LoadCompletes == loading' < loading /\ logExists

\* An Issue with its blocks left aside.
Bare(issue) == [issue EXCEPT !.blocks = <<>>]

\* The elements of a list are the last revisions of their identifiers in the
\* content, each identifier at most once.
LastRevisionsOnly(issues, content) ==
  /\ \A i, j \in 1..Len(issues) : issues[i].id = issues[j].id => i = j
  /\ \A k \in 1..Len(issues) :
       Bare(issues[k]) = parseJsonlLine(LastOf(content, issues[k].id))

\* C19: the snapshot a load stores holds one record per identifier of the
\* log, its last revision, and so do list(), ready() and blocked(); count() is
\* the number of identifiers of the log.
SnapshotIsLastRevisions ==
  [][LoadCompletes =>
       LET issues == cachedIssues'.value
           byId   == issuesById'.value
       IN  /\ LastRevisionsOnly(issues, log)
           /\ \A id \in Ids : LastOf(log, id) # Null => \E k \in 1..Len(issues) : issues[k].id = id
           /\ Len(issues) = Cardinality({id \in Ids : LastOf(log, id) # Null})
           /\ LastRevisionsOnly(ready(issues, byId), log)
           /\ LastRevisionsOnly(blocked(issues, byId), log)]_vars

\* C20: after a load, for all identifiers A and B of the snapshot, B is in
\* A.blocks exactly when A is in the dependsOn of the last revision of B, and
\* A.blocks holds no identifier twice.
BlocksIsInverseOfDependsOn ==
  [][LoadCompletes =>
       LET issues == cachedIssues'.value
       IN  \A k \in 1..Len(issues) :
             LET A == issues[k]
             IN  /\ \A i, j \in 1..Len(A.blocks) : A.blocks[i] = A.blocks[j] => i = j
                 /\ \A B \in Ids :
                      LastOf(log, B) # Null =>
                        ((\E i \in 1..Len(A.blocks) : A.blocks[i] = B)
                           <=> (\E i \in 1..Len(LastOf(log, B).dependencies) :
                                  LastOf(log, B).dependencies[i] = A.id))]_vars

\* A line that carries every required field with a value of its enumeration.
ValidLine(line) ==
  /\ line.kind = "json"
  /\ isValidStatus(line.status)
  /\ isValidType(line.issue_type)
  /\ isValidPriority(line.priority)
  /\ line.updated_at # Undefined

\* C21: a line whose status, kind or priority is outside its enumeration, or
\* that lacks a required field, is skipped: the snapshot a load stores is the
\* one of the log without those lines.
InvalidLinesSkipped ==
  [][LoadCompletes =>
       cachedIssues'.value = readIssuesFromJsonl(SelectSeq(log, ValidLine))]_vars

\* C22: a read of a missing log rejects and leaves nothing cached; a read of
\* an existing log, an empty one included, fulfils with its snapshot: the
\* two are never reported alike.
MissingLogRejects ==
  [][loading' < loading =>
       IF logExists
       THEN /\ lastLoad' = Fulfilled(readIssuesFromJsonl(log))
            /\ lastLoad' # Rejected
            /\ log = <<>> => cachedIssues' = Loaded(<<>>)
       ELSE /\ lastLoad' = Rejected
            /\ cachedIssues' = Null
            /\ issuesById' = Null]_vars

\* A read of the missing log has rejected, nothing is cached.
MissingLogRead ==
  /\ ~logExists
  /\ lastLoad = Rejected
  /\ cachedIssues = Null
  /\ loading = 0

\* ------------------------------------------------------------- readiness
\* The identifiers of the records of a list.
IdsIn(issues) == {issues[k].id : k \in 1..Len(issues)}

\* C23: for every snapshot the identifiers of ready() and of blocked() are
\* disjoint, none of them is the identifier of a closed record, and every
\* record of the snapshot that is not closed is in exactly one of the two,
\* once.
ReadyBlockedPartition ==
  cachedIssues # Null =>
    LET issues  == cachedIssues.value
        byId    == issuesById.value
        isReady == ready(issues, byId)
        isStuck == blocked(issues, byId)
    IN  /\ IdsIn(isReady) \cap IdsIn(isStuck) = {}
        /\ \A id \in IdsIn(isReady) \cup IdsIn(isStuck) : get(byId, id).status # "closed"
        /\ \A id \in IdsIn(issues) :
             get(byId, id).status # "closed" =>
               Cardinality(EntriesOf(isReady, id)) + Cardinality(EntriesOf(isStuck, id)) = 1

\* The dependencies of a record that are present in the snapshot and not closed.
OpenDependencies(issue, byId) ==
  {k \in 1..Len(issue.dependsOn) :
     \E j \in 1..Len(byId) : byId[j].id = issue.dependsOn[k] /\ byId[j].status # "closed"}

Among(issue, issues) == \E k \in 1..Len(issues) : issues[k] = issue

ChildrenOf(e, snapshot) ==
  IF ~MapHas(snapshot, e) THEN {}
  ELSE {k \in 1..Len(snapshot) :
          /\ snapshot[k].type # "epic"
          /\ \E i \in 1..Len(snapshot[k].dependsOn) : snapshot[k].dependsOn[i] = e}

\* C25: progress(e) has total = the number of children of e, closed = the
\* number of them that are closed and percentage = closed / total x 100, and
\* is {0, 0, 0} when e has no children or does not exist; so closed is at most
\* total, and percentage is 100 exactly when there are children and all are
\* closed.
ProgressCountsChildren ==
  epicIssues # Null =>
    \A e \in Ids :
      LET snapshot == MapOf(epicIssues.value)
          children == ChildrenOf(e, snapshot)
          closed   == {k \in children : snapshot[k].status = "closed"}
          result   == progress(e, epicIssues.value)
      IN  /\ result.total = Cardinality(children)
          /\ result.closed = Cardinality(closed)
          /\ result.percentage = IF children = {} THEN Fraction(0, 1)
                                 ELSE Percentage(Cardinality(closed), Cardinality(children))
          /\ (result.percentage = Fraction(100, 1))
               <=> (children # {} /\ closed = children)

\* -------------------------------------------------------- watcher, shrink
\* Nothing of the watcher is pending: no start() under way, no pass in
\* flight, no debounce timer armed, no native event undelivered, and the poll
\* has seen the size the log has.
Settled ==
  /\ running /\ startPc = "idle"
  /\ passes = <<>>
  /\ debounceTimer = NoTimer
  /\ nativeEvents = 0
  /\ lastPolledSize = FileSize(log)

\* The pass that ends in this step is at its stat.
PassEndsAtStat ==
  \E i \in 1..Len(passes) : passes[i].pc = "stat" /\ passes' = RemoveAt(passes, i)

\* C26: a pass that finds the log smaller than the baseline size emits no
\* 'issue' event and adopts the size it found; and when appends have then
\* grown the log beyond that size, the watcher does not settle before a pass
\* has read them into the baseline.
ShrunkLogAdopted ==
  [][/\ (PassEndsAtStat /\ FileSize(log) < lastSize)
          => (emitted' = <<>> /\ lastSize' = FileSize(log))
     /\ (Settled' /\ \E n \in shrunkTo' : FileSize(log') > n)
          => knownIssues' = parseToMap(log')
    ]_vars

\* The pass that ends in this step is at its readFile.
PassEndsAtRead ==
  \E i \in 1..Len(passes) : passes[i].pc = "read" /\ passes' = RemoveAt(passes, i)

\* C27: every pass in which the log has not shrunk calls the 'change'
\* listeners once, whether or not a record changed.
ChangePerPass ==
  [][((PassEndsAtStat /\ FileSize(log) >= lastSize) \/ PassEndsAtRead)
       => lastPassChange']_vars

\* ------------------------------------------------------ daemon, queries
\* C28: the issues API handed to a handler reflects the log as of the pass
\* that produced the event: issues.get(id) asked by the handler of a
\* 'created' event finds the created record, also when the runtime has
\* answered queries for earlier events.
QueryFindsCreated == \A a \in answers : a.found

\* ------------------------------------------------ daemon, hung handlers
\* C29: a handler invocation that never completes stalls only itself: while
\* it is pending a change of the log's size still leads, through the poll
\* and the debounce timer, to a pass, and a pass that ends still replaces the
\* baseline and hands its events to the handlers.
HungHandlerStallsOnlyItself ==
  /\ (dispatches # <<>> /\ running /\ passes = <<>>
        /\ FileSize(log) # lastPolledSize) ~> (passes # <<>>)
  /\ [][(dispatches # <<>> /\ PassEndsAtRead)
          => /\ knownIssues' = parseToMap(log)
             /\ Len(dispatches') = Len(dispatches) + Len(handleIssueEvent(PassEvents))
       ]_vars

\* A pass has invoked handlers while the invocation of an earlier pass is
\* still pending.
InvokedWhileAnotherPending ==
  /\ ~crashed
  /\ invocations # {}
  /\ \E k \in 1..Len(dispatches) :
       dispatches[k].issue \notin {v.issue : v \in invocations}

\* ------------------------------------------- watcher, fs.watch not armed
\* C30: when fs.watch could not be armed, the step that ends start() leaves
\* the watcher running with the poll timer armed, and from then on a log
\* whose size differs from the size polled last leads to the poll having
\* seen its size and the baseline holding its content.
PollingDetectsAppends ==
  /\ [][(startPc = "stat" /\ startPc' = "idle" /\ ~fsWatcher')
          => (running' /\ pollInterval' = PollTicks)]_vars
  /\ (running /\ ~fsWatcher /\ FileSize(log) # lastPolledSize)
       ~> (lastPolledSize = FileSize(log) /\ knownIssues = parseToMap(log))

\* fs.watch was not armed, a record was appended after start() returned, and
\* the baseline holds it.
AppendedAfterStartDetected ==
  /\ running /\ ~fsWatcher
  /\ \E n \in startedAt :
       /\ Len(log) > n
       /\ knownIssues # parseToMap(SubSeq(log, 1, n))
  /\ knownIssues = parseToMap(log)

\* ------------------------------------------------------- ledger, queries
\* The filters list() is called with: every field absent or given.
ListFilters ==
  [issue : Ids \cup {Undefined}, status : WorkflowStatuses \cup {Undefined},
   type : {"issue", "schedule", "manual", Undefined}]

\* An entry satisfies every field the filter gives.
Satisfies(r, filter) ==
  /\ filter.issue # Undefined => r.issue = filter.issue
  /\ filter.status # Undefined => r.status = filter.status
  /\ filter.type # Undefined => r.type = filter.type

\* C31: list(filter) returns, in append order, exactly the stored entries
\* that satisfy every field the filter gives, and listFailed() returns what
\* list({status: 'failed'}) returns.
ListReturnsTheSatisfying ==
  /\ \A filter \in ListFilters :
       list(ledger, filter) = SelectSeq(recorded, LAMBDA r : Satisfies(r, filter))
  /\ listFailed(ledger) = list(ledger, [NoFilter EXCEPT !.status = "failed"])

\* ----------------------------------------------------------------- hooks
\* The handlers registered for an event by a call whose unsubscribe function
\* has not been called.
Registered(event) ==
  {k \in 1..Len(unsubscribes) :
     unsubscribes[k].event = event /\ ~unsubscribes[k].called}

FirstRegistered(event, handler) ==
  CHOOSE k \in Registered(event) :
    /\ unsubscribes[k].handler = handler
    /\ \A j \in Registered(event) : unsubscribes[j].handler = handler => k <= j

\* C32: emit(event, args) calls exactly the handlers registered for the
\* event, each once, in the order they were registered and with the
\* arguments emitted, and the second call of an unsubscribe function changes
\* nothing.
EmitCallsTheRegistered ==
  /\ [](\A event \in HookEvents, args \in HookArgs :
          LET calls == emit(handlers, event, args)
          IN  /\ {calls[k].handler : k \in 1..Len(calls)}
                   = {unsubscribes[k].handler : k \in Registered(event)}
              /\ \A i, j \in 1..Len(calls) :
                   i < j => /\ calls[i].handler # calls[j].handler
                            /\ FirstRegistered(event, calls[i].handler)
                                 < FirstRegistered(event, calls[j].handler)
              /\ \A k \in 1..Len(calls) : calls[k].args = args /\ calls[k].event = event)
  /\ [][\A k \in 1..Len(unsubscribes) :
          (unsubscribes[k].called /\ unsubscribes' = unsubscribes)
            => handlers' = handlers]_vars

\* ------------------------------------- watcher, a listener that throws
\* The pass that ends in this step was aborted by a listener.
PassAborted == PassEndsAtRead /\ errors' # errors

\* The pass that ends in this step is the first to end after an aborted pass.
FollowsAborted(a) ==
  /\ a \in aborted /\ a.next = {}
  /\ PassEndsAtStat \/ PassEndsAtRead

\* The pass that ends in this step gives the listener again what the aborted
\* pass had delivered before the exception, as far as the listener lets it.
DeliversAgain(a) ==
  \/ IsPrefix(a.delivered, emitted')
  \/ PassAborted /\ IsPrefix(emitted', a.delivered)

\* A pass aborted by an 'issue' listener emits none of its remaining events
\* and no 'change', leaves the baseline and its size, and the 'error'
\* listeners are given the exception.
AbortLeavesBaseline ==
  PassAborted =>
    /\ IsPrefix(emitted', Kept(PassEvents))
    /\ knownIssues' = knownIssues /\ lastSize' = lastSize
    /\ ~lastPassChange'
    /\ errors' = errors + 1

\* C33, as stated: a pass aborted by an 'issue' listener leaves the baseline,
\* and the next pass emits again the events delivered before the exception.
NextPassEmitsAgain ==
  [][/\ AbortLeavesBaseline
     /\ \A a \in aborted : FollowsAborted(a) => DeliversAgain(a)]_vars

\* C33: a pass aborted by an 'issue' listener leaves the baseline, and the
\* next pass, when it finds the log as the aborted pass read it, emits again
\* the events delivered before the exception.
NextPassOnSameLogEmitsAgain ==
  [][/\ AbortLeavesBaseline
     /\ \A a \in aborted : (FollowsAborted(a) /\ log = a.log) => DeliversAgain(a)]_vars

\* A pass was aborted after it had delivered an event, and the next pass has
\* read the same log to its end.
DeliveredTwice ==
  /\ \E a \in aborted :
       /\ a.delivered # <<>> /\ a.next = {a.log}
       /\ IsPrefix(a.delivered, emitted)
  /\ lastPassChange

\* -------------------------------------------- watcher, log not grown
\* C34: a pass that finds the log no larger than the baseline size emits no
\* event and leaves the baseline snapshot, replacing only the baseline size;
\* and the first reading pass to end after a truncation is compared against
\* the snapshot of before the truncation, so that it emits no 'created' for
\* a record of that snapshot.
NotGrownLeavesSnapshot ==
  [][/\ PassEndsAtStat
          => /\ knownIssues' = knownIssues
             /\ lastSize' = FileSize(log)
             /\ emitted' = <<>>
     /\ \A t \in truncated :
          (PassEndsAtRead /\ ~t.compared)
            => /\ emitted' = Kept(DetectChanges(t.snapshot, parseToMap(log)))
               /\ \A k \in 1..Len(emitted') :
                    emitted'[k].type = "created" => ~MapHas(t.snapshot, emitted'[k].id)
    ]_vars

\* A record of the baseline was truncated away and appended again, and the
\* pass that read it has emitted nothing.
AppendedAgainSilently ==
  /\ \E t \in truncated : t.compared /\ t.snapshot # <<>> /\ knownIssues = t.snapshot
  /\ knownIssues = parseToMap(log)
  /\ emitted = <<>>
  /\ lastPassChange

\* ------------------------------------------------- watcher, calls overlap
\* A stop() of the running watcher.
Stops == running /\ ~running'

\* C35: with start() calls that overlap, at most one poll loop and at most
\* one native subscription are armed, and a stop() releases every timer and
\* every subscription that was armed.
OverlappingStartsArmOnce ==
  /\ [](Cardinality(pollTimers) <= 1 /\ Cardinality(subscriptions) <= 1)
  /\ [][Stops => pollTimers' = {} /\ subscriptions' = {} /\ debounceTimer' = NoTimer]_vars

\* C36: when stop() was called while a start() was in flight and no start()
\* was called afterwards, the watcher is stopped once the calls have
\* completed: isRunning() is false, no poll loop and no subscription is armed.
StopDuringStartEndsStopped ==
  (stopMidStart /\ starts = <<>>) =>
    (~running /\ pollTimers = {} /\ subscriptions = {})

\* --------------------------------------------- issues API, calls overlap
\* C37: ready() and blocked() evaluate blocking against an index that is not
\* null and is the index of the list they filter, whatever reload() calls
\* are made meanwhile.
ReadyUsesTheIndexOfItsList ==
  \A e \in evaluated : e.byId = Loaded(MapOf(e.issues))

\* ------------------------------------------------------- ledger, queries
\* The file is missing, or JSON.parse throws for one of its lines.
Unreadable(file) ==
  ~file.exists \/ \E k \in 1..Len(NonBlank(file)) : ~CanParse(NonBlank(file)[k])

\* C38: a ledger that is missing or holds a line that fails to parse reads
\* as empty: list() and listFailed() return [], wasExecuted() is false for
\* every pair and retry() is null, whatever valid entries are stored before
\* or after the line.
UnreadableLedgerReadsEmpty ==
  Unreadable(ledger) =>
    /\ \A filter \in ListFilters : list(ledger, filter) = <<>>
    /\ listFailed(ledger) = <<>>
    /\ \A issue \in AuditIssues, event \in AuditEvents :
         /\ ~wasExecuted(ledger, issue, event)
         /\ retry(ledger, issue, event) = Null

\* A line that is not JSON stands between an entry stored before it and an
\* entry recorded after it, and list() has returned [].
ListedEmptyAroundGarbage ==
  /\ \E i, j, k \in 1..Len(ledger.lines) :
       /\ i < j /\ j < k
       /\ CanParse(ledger.lines[i]) /\ ledger.lines[j] = GarbageLine
       /\ CanParse(ledger.lines[k])
  /\ recorded # <<>>
  /\ \E a \in answer : a.query = "list" /\ a.args = <<NoFilter>> /\ a.result = <<>>

\* The failed issue entries of the pair, by their place in the ledger.
FailedOf(file, issue, event) ==
  {k \in 1..Len(readRecords(file)) : IsFailedOf(readRecords(file)[k], issue, event)}

\* C39: retry(id, event) returns the retry information of a failed entry of
\* the pair whenever one is stored, whether or not wasExecuted(id, event) is
\* true, and null otherwise; no query changes the stored entries.
RetryLooksAtFailedOnly ==
  /\ [](\A issue \in AuditIssues, event \in AuditEvents :
          IF FailedOf(ledger, issue, event) = {}
          THEN retry(ledger, issue, event) = Null
          ELSE \E k \in FailedOf(ledger, issue, event) :
                 retry(ledger, issue, event) =
                   [issue |-> issue, event |-> event,
                    handler |-> readRecords(ledger)[k].handler,
                    error |-> readRecords(ledger)[k].error])
  /\ [][ledger' # ledger => UNCHANGED answer]_vars

\* retry has returned the information of a failed entry of a pair for which
\* a success was recorded later.
RetriedAfterSuccess ==
  /\ wasExecuted(ledger, "bw-1", "created")
  /\ \E i, k \in 1..Len(readRecords(ledger)) :
       /\ i < k
       /\ IsFailedOf(readRecords(ledger)[i], "bw-1", "created")
       /\ IsSuccessOf(readRecords(ledger)[k], "bw-1", "created")
  /\ recorded # <<>>
  /\ \E a \in answer :
       /\ a.query = "retry" /\ a.args = <<"bw-1", "created">>
       /\ a.result = retry(ledger, "bw-1", "created")
       /\ a.result # Null

\* ------------------------------------------------- watcher, trailing edge
\* A call of debouncedProcess.
Triggered == NativeNotify \/ PollChanged

\* C40: every trigger cancels the pending timer and arms one of debounceMs;
\* no pass starts less than debounceMs after a trigger, however long the
\* triggers go on; while the watcher runs a pending timer is cleared only by
\* its expiry, which starts the one pass of the burst; and it does expire.
TrailingEdge ==
  /\ [](~earlyStart /\ burstFires <= 1)
  /\ [][Triggered => debounceTimer' = DebounceTicks]_vars
  /\ [][(debounceTimer >= 0 /\ debounceTimer' = NoTimer) => PassStarts]_vars
  /\ (debounceTimer >= 0) ~> (debounceTimer = NoTimer)

\* Triggers less than debounceMs apart have held the pass back for
\* debounceMs or more before the last of them arrived, and one pass started
\* debounceMs after it.
HeldBackBeyondDebounce ==
  /\ running /\ debounceTimer = NoTimer
  /\ burstTriggers >= 3 /\ burstFires = 1 /\ ~earlyStart
  /\ stretch.held /\ quiet >= DebounceTicks

====
